---- MODULE Spec2Model ----
(***************************************************************************)
(* AutoCoach: the training-load and performance-metrics engine.            *)
(*                                                                         *)
(*   app/services/metrics.py     daily load aggregation (TSS, ATL, CTL,    *)
(*                               TSB) and the power metrics (NP)           *)
(*   app/services/thresholds.py  date-versioned threshold resolution and   *)
(*                               validation                                *)
(*                                                                         *)
(* Python floats are modelled as exact rationals <<n, d>> (d > 0, lowest   *)
(* terms): every property below is a property of the real-number           *)
(* computation the code performs, not of its rounding.  An Optional field  *)
(* is None (the empty tuple) or Some(v) (a 1-tuple).                       *)
(***************************************************************************)
EXTENDS Integers, Sequences, FiniteSets, TLC

VARIABLES
    unit,        \* which entry point this run exercises
    activities,  \* List[Activity] handed to compute_metrics_daily
    loadPc,      \* "call" before compute_metrics_daily, "done" / "raised" after
    metrics,     \* List[MetricsDaily] returned by compute_metrics_daily
    thresholds,  \* List[AthleteThreshold]: the history handed to the resolver
    thrQuery,    \* the resolver's other arguments
    thrPc,       \* "call" before get_threshold_for_date, "done" after
    thrResult,   \* Optional[AthleteThreshold] it returned
    valInput,    \* arguments of validate_threshold_for_tss_calculation
    valPc,       \* "call", then "returned" or "ThresholdNotFoundError"
    power_samples,   \* List[float] handed to calculate_normalized_power
    sample_rate_hz,  \* its sample rate argument
    npPc,            \* "call" before calculate_normalized_power, "done" after
    npResult,        \* what it returned or raised
    metricCall,      \* a call of one of the other pure metric functions
    metricPc,        \* "call" before it, "done" after
    metricResult,    \* what it returned or raised
    sumInput,        \* arguments of _calculate_summary_metrics
    sumPc,           \* "call" before it, "done" after
    summary,         \* the summary dict it returned
    records,         \* the 'record' messages handed to _extract_samples
    extPc,           \* "call" before it, "done" after
    extResult,       \* the samples it returned, or what it raised
    parseInput,      \* the file handed to parse_fit_file and its ftp
    parsePc,         \* position inside parse_fit_file
    tempFile,        \* the decompression temp file: "none", "exists", "removed"
    pending,         \* the exception an except clause raised, until finally ran
    parseOutcome,    \* what parse_fit_file returned or raised
    composeInput,    \* the threshold history and the query of a scoring run
    composePc,       \* "resolve", "validate", "calculate", "done" or "rejected"
    composeThreshold, \* what get_threshold_for_date returned
    composeResult,   \* what the two calculators returned or raised
    reqInput,        \* the client, its session token and the endpoint of a _make_request call
    reqPc,           \* "idle", "call", "first", "refresh", "retry" or "done"
    reqLog,          \* the HTTP requests and token refreshes the call has issued, in order
    reqResult,       \* what _make_request returned or raised
    tpEnv,           \* which TRAININGPEAKS_* environment variables the process has
    tp_client,       \* the process-wide TrainingPeaks client: None or its session token
    apiStep,         \* how many requests the application has handled
    apiResponse,     \* the last request handled and the response it got
    uploadInput,     \* the file name of an upload and what saving and parsing it will do
    uploadPc,        \* "idle", "validate", "save", "parse", "except" or "done"
    uploadFile,      \* the file under uploads/: "absent", "saved" or "removed"
    uploadRaised,    \* the exceptions raised while handling the upload, in order
    uploadStatus,    \* the status the caller receives
    garminClient,    \* self.client of a GarminClient: "None", or a Garmin object that is "authenticated" or "unauthenticated"
    tokenStore,      \* the token file: "absent", "cached" or "unreadable"
    lastLogin,       \* the most recent login attempt: "none", "succeeded" or "failed"
    garminCalls,     \* how many calls the GarminClient has had
    garminPc,        \* where login() stands: "ready" (no call running), "load", "token", "password" or "cache"
    garminCall       \* the last call: its name, whether it ran login, and how it ended

loadVars == <<activities, loadPc, metrics>>
thrVars == <<thresholds, thrQuery, thrPc, thrResult>>
valVars == <<valInput, valPc>>
npVars == <<power_samples, sample_rate_hz, npPc, npResult>>
pureVars == <<metricCall, metricPc, metricResult>>
sumVars == <<sumInput, sumPc, summary>>
extVars == <<records, extPc, extResult>>
parseVars == <<parseInput, parsePc, tempFile, pending, parseOutcome>>
composeVars == <<composeInput, composePc, composeThreshold, composeResult>>
reqVars == <<reqInput, reqPc, reqLog, reqResult>>
apiVars == <<tpEnv, tp_client, apiStep, apiResponse>>
uploadVars == <<uploadInput, uploadPc, uploadFile, uploadRaised, uploadStatus>>
garminVars == <<garminClient, tokenStore, lastLogin, garminCalls, garminPc, garminCall>>
vars == <<unit, loadVars, thrVars, valVars, npVars, pureVars, sumVars, extVars,
          parseVars,
          composeVars,
          reqVars,
          apiVars,
          uploadVars,
          garminVars>>

\* ---------------------------------------------------------------- bounds
MaxActs == 3     \* longest activity list
MaxDay == 2      \* activity dates are day ordinals 0..MaxDay
MaxThr == 2      \* longest threshold history
MaxDate == 2     \* effective and workout dates are day ordinals 0..MaxDate
MaxSegs == 2     \* a power series is at most this many constant stretches
MaxSamples == 2  \* longest sample list handed to the summary assembly
MaxRecords == 3  \* most 'record' messages of a telemetry file
MaxRequests == 3 \* most requests the application handles in one run
MaxCalls == 4    \* most calls made on one GarminClient

\* ------------------------------------------------------ optional values
None == <<>>
Some(v) == <<v>>
Val(o) == o[1]

\* ------------------------------------------------------- real arithmetic
Abs(x) == IF x < 0 THEN -x ELSE x

RECURSIVE GCD(_, _)
GCD(a, b) == IF b = 0 THEN a ELSE GCD(b, a % b)

LCM(a, b) == (a \div GCD(a, b)) * b

Rat(n, d) ==
    LET g == GCD(Abs(n), d)
    IN  <<n \div g, d \div g>>

RInt(n) == <<n, 1>>

RAdd(x, y) ==
    LET l == LCM(x[2], y[2])
    IN  Rat(x[1] * (l \div x[2]) + y[1] * (l \div y[2]), l)

RNeg(x) == <<-x[1], x[2]>>

RSub(x, y) == RAdd(x, RNeg(y))

RMul(x, y) ==
    LET a == Rat(x[1], y[2])
        b == Rat(y[1], x[2])
    IN  <<a[1] * b[1], a[2] * b[2]>>

RDiv(x, y) == RMul(x, IF y[1] < 0 THEN <<-y[2], -y[1]>> ELSE <<y[2], y[1]>>)

RLe(x, y) ==
    LET l == LCM(x[2], y[2])
    IN  x[1] * (l \div x[2]) <= y[1] * (l \div y[2])

RLt(x, y) == RLe(x, y) /\ x # y

RZero == RInt(0)

\* Range sums, by halves so that the evaluation stays shallow
RECURSIVE RangeSum(_, _, _)
RangeSum(f, lo, hi) ==
    IF lo > hi THEN 0
    ELSE IF lo = hi THEN f[lo]
    ELSE LET mid == (lo + hi) \div 2
         IN  RangeSum(f, lo, mid) + RangeSum(f, mid + 1, hi)

\* Naturals beyond the machine word, for the 4th powers of the power metrics:
\* little-endian digits in base BNBase, no leading zero digit, zero is <<>>.
BNBase == 1000

BNTrim(a) ==
    LET nz == {i \in 1..Len(a) : a[i] # 0}
    IN  IF nz = {} THEN <<>>
        ELSE SubSeq(a, 1, CHOOSE i \in nz : \A j \in nz : j <= i)

\* a machine integer n >= 0
BN(n) ==
    BNTrim(<<n % BNBase,
             (n \div BNBase) % BNBase,
             (n \div (BNBase * BNBase)) % BNBase,
             n \div (BNBase * BNBase * BNBase)>>)

BNDigit(a, i) == IF i \in 1..Len(a) THEN a[i] ELSE 0

\* every digit's overflow moved one place up, once
BNCarryPass(c) ==
    [k \in 1..(Len(c) + 1) |-> (BNDigit(c, k) % BNBase) + (BNDigit(c, k - 1) \div BNBase)]

\* digits of at most 2 * BNBase - 2 brought below BNBase: place k receives a
\* carry iff a lower place overflows and every place between is BNBase - 1
BNResolve(c) ==
    LET carry(k) ==
            IF \E j \in 1..(k - 1) :
                   /\ c[j] >= BNBase
                   /\ \A m \in (j + 1)..(k - 1) : c[m] = BNBase - 1
                THEN 1 ELSE 0
    IN  BNTrim([k \in 1..(Len(c) + 1) |-> (BNDigit(c, k) + carry(k)) % BNBase])

BNAdd(a, b) ==
    BNResolve([k \in 1..(IF Len(a) < Len(b) THEN Len(b) ELSE Len(a)) |->
                   BNDigit(a, k) + BNDigit(b, k)])

\* schoolbook product: column sums (a sum of up to 2000 digit products fits
\* the machine word), then the carries
BNMul(a, b) ==
    IF a = <<>> \/ b = <<>> THEN <<>>
    ELSE LET column(k) ==
                 LET lo == IF k + 1 - Len(b) > 1 THEN k + 1 - Len(b) ELSE 1
                     hi == IF k < Len(a) THEN k ELSE Len(a)
                 IN  RangeSum([i \in lo..hi |-> a[i] * b[k + 1 - i]], lo, hi)
         IN  BNResolve(BNCarryPass(BNCarryPass(BNCarryPass(
                 [k \in 1..(Len(a) + Len(b) - 1) |-> column(k)]))))

BNLeq(a, b) ==
    IF Len(a) # Len(b) THEN Len(a) < Len(b)
    ELSE LET diff == {i \in 1..Len(a) : a[i] # b[i]}
         IN  \/ diff = {}
             \/ LET top == CHOOSE i \in diff : \A j \in diff : j <= i
                IN  a[top] < b[top]

BNPow4(a) == LET sq == BNMul(a, a) IN BNMul(sq, sq)

\* sums and products of big naturals f[lo..hi], by halves
RECURSIVE BNSum(_, _, _)
BNSum(f, lo, hi) ==
    IF lo > hi THEN <<>>
    ELSE IF lo = hi THEN f[lo]
    ELSE LET mid == (lo + hi) \div 2
         IN  BNAdd(BNSum(f, lo, mid), BNSum(f, mid + 1, hi))

RECURSIVE BNProduct(_, _, _)
BNProduct(f, lo, hi) ==
    IF lo > hi THEN BN(1)
    ELSE IF lo = hi THEN f[lo]
    ELSE LET mid == (lo + hi) \div 2
         IN  BNMul(BNProduct(f, lo, mid), BNProduct(f, mid + 1, hi))

\* Non-negative reals <<n, d>> with n, d of the above kind, d > 0, not
\* reduced: compared by cross multiplication.
QNum(x) == Head(x)
QDen(x) == Head(Tail(x))
QEq(x, y) == BNMul(QNum(x), QDen(y)) = BNMul(QNum(y), QDen(x))
QLeq(x, y) == BNLeq(BNMul(QNum(x), QDen(y)), BNMul(QNum(y), QDen(x)))
QLt(x, y) == QLeq(x, y) /\ ~QEq(x, y)
\* r ** 4 of a non-negative rational r
QPow4(r) == <<BNPow4(BN(Head(r))), BNPow4(BN(Head(Tail(r))))>>

\* ----------------------------------------------------------- constants
\* LoadConstants
atl_tau_days == 7
ctl_tau_days == 42
\* the estimate's fixed intensity factor, 0.7, in tenths
FallbackIfTenths == 7

\* ------------------------------------------------------------ Activity
\* Activity: the fields the aggregator reads.  duration_min is required
\* (ge=0); tss and intensity_factor are Optional[float] (ge=0).
DurationValues == {RInt(90)}
TssValues == {None, Some(RZero), Some(RInt(100))}
IfValues == {None, Some(Rat(1, 2))}

Activity ==
    [activity_date : 0..MaxDay,
     duration_min : DurationValues,
     tss : TssValues,
     intensity_factor : IfValues]

ActivityLists == UNION {[1..n -> Activity] : n \in 0..MaxActs}

\* ------------------------------------------------ activities_to_dataframe
\* frame["tss"] after the fillna of line 219: an explicit tss stays, a
\* missing one becomes 100 * (duration_min / 60) * intensity_factor, the
\* factor itself filled with 0.7 where missing.
FilledIntensity(a) ==
    IF a.intensity_factor = None
        THEN Rat(FallbackIfTenths, 10)
        ELSE Val(a.intensity_factor)

EstimatedTss(a) ==
    RMul(RMul(RInt(100), RDiv(a.duration_min, RInt(60))), FilledIntensity(a))

\* mutant: "if not tss" instead of a missing-value test, so an explicit 0.0
\* is estimated over
FilledTssFalsy(a) ==
    IF a.tss = None \/ a.tss = Some(RZero) THEN EstimatedTss(a) ELSE Val(a.tss)

FilledTss(a) == IF a.tss = None THEN EstimatedTss(a) ELSE Val(a.tss)

\* variant of GroupSum keeping the first row of a date only
RECURSIVE GroupFirst(_, _, _)
GroupFirst(acts, d, n) ==
    IF n = 0 THEN RZero
    ELSE IF \E k \in 1..(n - 1) : acts[k].activity_date = d
        THEN GroupFirst(acts, d, n - 1)
    ELSE IF acts[n].activity_date = d THEN FilledTss(acts[n])
    ELSE RZero

\* groupby(date)["tss"].sum(): the rows of one date, added in frame order
RECURSIVE GroupSum(_, _, _)
GroupSum(acts, d, n) ==
    IF n = 0 THEN RZero
    ELSE LET rest == GroupSum(acts, d, n - 1)
         IN  IF acts[n].activity_date = d
                 THEN RAdd(rest, FilledTss(acts[n]))
                 ELSE rest

SetMin(S) == CHOOSE x \in S : \A y \in S : x <= y
SetMax(S) == CHOOSE x \in S : \A y \in S : y <= x

\* the keys of a groupby come out sorted
RECURSIVE SortedKeys(_)
SortedKeys(S) ==
    IF S = {} THEN <<>>
    ELSE <<SetMin(S)>> \o SortedKeys(S \ {SetMin(S)})

activities_to_dataframe(acts) ==
    IF acts = <<>> THEN <<>>
    ELSE LET keys == SortedKeys({acts[i].activity_date : i \in 1..Len(acts)})
         IN  [k \in 1..Len(keys) |->
                 [date |-> keys[k], tss |-> GroupSum(acts, keys[k], Len(acts))]]

\* --------------------------------------- compute_chronic_and_acute_loads
\* mutant: no reindex, the rest days are left out
ReindexedNoFill(daily) == daily

\* reindex(full_index).fillna({"tss": 0.0}): one row per day of
\* min(date)..max(date); a day without a row gets tss 0.0
Reindexed(daily) ==
    LET dates == {daily[k].date : k \in 1..Len(daily)}
        lo == SetMin(dates)
        hi == SetMax(dates)
    IN  [j \in 1..(hi - lo + 1) |->
            LET d == lo + j - 1
            IN  IF d \in dates
                    THEN [date |-> d,
                          tss |-> (CHOOSE r \in {daily[k] : k \in 1..Len(daily)} :
                                       r.date = d).tss]
                    ELSE [date |-> d, tss |-> RZero]]

\* mutant: the weights of the new sample and of the history exchanged
RECURSIVE EwmSwapped(_, _, _)
EwmSwapped(rows, tau, i) ==
    IF i = 1 THEN rows[1].tss
    ELSE RAdd(RMul(RSub(RInt(1), Rat(1, tau)), rows[i].tss),
              RMul(Rat(1, tau), EwmSwapped(rows, tau, i - 1)))

\* Series.ewm(alpha=1/tau, adjust=False).mean()
RECURSIVE Ewm(_, _, _)
Ewm(rows, tau, i) ==
    IF i = 1 THEN rows[1].tss
    ELSE RAdd(RMul(Rat(1, tau), rows[i].tss),
              RMul(RSub(RInt(1), Rat(1, tau)), Ewm(rows, tau, i - 1)))

\* mutant: a negative balance clamped to zero
TsbClamped(ctl, atl) == IF RLe(ctl, atl) THEN RZero ELSE RSub(ctl, atl)

\* df["tsb"] = df["ctl"] - df["atl"]
Tsb(ctl, atl) == RSub(ctl, atl)

compute_chronic_and_acute_loads(daily) ==
    IF daily = <<>> THEN <<>>
    ELSE LET rows == Reindexed(daily)
         IN  [i \in 1..Len(rows) |->
                 LET atl == Ewm(rows, atl_tau_days, i)
                     ctl == Ewm(rows, ctl_tau_days, i)
                 IN  [date |-> rows[i].date,
                      tss |-> rows[i].tss,
                      atl |-> atl,
                      ctl |-> ctl,
                      tsb |-> Tsb(ctl, atl)]]

\* ------------------------------------------------- compute_metrics_daily
\* MetricsDaily: tss, atl and ctl carry ge=0; tsb carries no constraint
\* variant of MetricsDailyValid with gt=0 in place of ge=0
MetricsDailyValidStrict(row) ==
    /\ RLt(RZero, row.tss)
    /\ RLt(RZero, row.atl)
    /\ RLt(RZero, row.ctl)

MetricsDailyValid(row) ==
    /\ RLe(RZero, row.tss)
    /\ RLe(RZero, row.atl)
    /\ RLe(RZero, row.ctl)

\* variant of MetricsDaily with the balance passed as ctl
MetricsDailyTsbAsCtl(row) ==
    [metric_date |-> row.date,
     tss |-> row.tss,
     atl |-> row.atl,
     ctl |-> row.tsb,
     tsb |-> row.tsb]

MetricsDaily(row) ==
    [metric_date |-> row.date,
     tss |-> row.tss,
     atl |-> row.atl,
     ctl |-> row.ctl,
     tsb |-> row.tsb]

\* variant of compute_metrics_daily that refuses an empty activity list
compute_metrics_daily_rejects_empty(acts) ==
    LET df == compute_chronic_and_acute_loads(activities_to_dataframe(acts))
    IN  IF acts # <<>> /\ \A i \in 1..Len(df) : MetricsDailyValid(df[i])
            THEN [raised |-> FALSE, results |-> [i \in 1..Len(df) |-> MetricsDaily(df[i])]]
            ELSE [raised |-> TRUE, results |-> <<>>]

compute_metrics_daily(acts) ==
    LET df == compute_chronic_and_acute_loads(activities_to_dataframe(acts))
    IN  IF \A i \in 1..Len(df) : MetricsDailyValid(df[i])
            THEN [raised |-> FALSE, results |-> [i \in 1..Len(df) |-> MetricsDaily(df[i])]]
            ELSE [raised |-> TRUE, results |-> <<>>]

\* ---------------------------------------------------- AthleteThreshold
\* str.lower() on the sport tags that occur
Lower(s) ==
    CASE s = "Cycling" -> "cycling"
      [] s = "CYCLING" -> "cycling"
      [] s = "Running" -> "running"
      [] s = "Swimming" -> "swimming"
      [] s = "Triathlon" -> "triathlon"
      [] s = "Bike" -> "bike"
      [] s = "RUN" -> "run"
      [] s = "Hiking" -> "hiking"
      [] s = "FIT" -> "fit"
      [] s = "RIDE" -> "ride"
      [] OTHER -> s

\* AthleteThreshold.validate_sport: the stored sport is lower-cased and one
\* of these
AllowedSports == {"cycling", "running", "swimming"}

AthleteThreshold(athletes, sports, dates, ftps, paces, swims) ==
    [athlete_id : athletes,
     sport : sports,
     effective_date : dates,
     is_user_override : BOOLEAN,
     ftp : ftps,
     threshold_pace_min_per_km : paces,
     threshold_pace_100m_s : swims]

\* ------------------------------------------------ get_threshold_for_date
\* mutant: the effective_date <= workout_date test left out
MatchesAnyDate(t, athlete_id, sport, workout_date) ==
    /\ t.athlete_id = athlete_id
    /\ Lower(t.sport) = Lower(sport)

Matches(t, athlete_id, sport, workout_date) ==
    /\ t.athlete_id = athlete_id
    /\ Lower(t.sport) = Lower(sport)
    /\ t.effective_date <= workout_date

\* list.sort(key=effective_date, reverse=True): stable, so records of one
\* date keep their order
RECURSIVE InsertByDateDesc(_, _)
InsertByDateDesc(sorted, t) ==
    IF sorted = <<>> THEN <<t>>
    ELSE IF Head(sorted).effective_date >= t.effective_date
             THEN <<Head(sorted)>> \o InsertByDateDesc(Tail(sorted), t)
             ELSE <<t>> \o sorted

\* mutant: reverse=True left out, oldest first
RECURSIVE SortByDateAsc(_)
SortByDateAsc(s) ==
    IF s = <<>> THEN <<>>
    ELSE LET rest == SortByDateAsc(SubSeq(s, 1, Len(s) - 1))
             t == s[Len(s)]
             older == SelectSeq(rest, LAMBDA r : r.effective_date <= t.effective_date)
             newer == SelectSeq(rest, LAMBDA r : r.effective_date > t.effective_date)
         IN  older \o <<t>> \o newer

RECURSIVE SortByDateDesc(_)
SortByDateDesc(s) ==
    IF s = <<>> THEN <<>>
    ELSE InsertByDateDesc(SortByDateDesc(SubSeq(s, 1, Len(s) - 1)), s[Len(s)])

IsUserOverride(t) == t.is_user_override

\* mutant: the override preference ignored
PickMostRecent(filtered, prefer_user_override) == Some(filtered[1])

PickThreshold(filtered, prefer_user_override) ==
    LET user_overrides == SelectSeq(filtered, IsUserOverride)
    IN  IF prefer_user_override /\ user_overrides # <<>>
            THEN Some(user_overrides[1])
            ELSE Some(filtered[1])

get_threshold_for_date(athlete_id, sport, workout_date, history, prefer_user_override) ==
    IF history = <<>> THEN None
    ELSE LET filtered ==
                 SelectSeq(history,
                           LAMBDA t : Matches(t, athlete_id, sport, workout_date))
         IN  IF filtered = <<>> THEN None
             ELSE PickThreshold(SortByDateDesc(filtered), prefer_user_override)

\* --------------------------------- validate_threshold_for_tss_calculation
\* "not x or x <= 0" for an Optional[int] and an Optional[float]
InvalidInt(o) == o = None \/ Val(o) = 0 \/ Val(o) <= 0
InvalidFloat(o) == o = None \/ Val(o) = RZero \/ RLe(Val(o), RZero)

\* variant of validate_threshold_for_tss_calculation that only tests the
\* sport's value for None
validate_threshold_for_tss_calculation_none_only(threshold, sport) ==
    IF threshold = None THEN "ThresholdNotFoundError"
    ELSE IF Lower(sport) = "cycling"
        THEN IF Val(threshold).ftp = None
                 THEN "ThresholdNotFoundError" ELSE "returned"
    ELSE IF Lower(sport) = "running"
        THEN IF Val(threshold).threshold_pace_min_per_km = None
                 THEN "ThresholdNotFoundError" ELSE "returned"
    ELSE IF Lower(sport) = "swimming"
        THEN IF Val(threshold).threshold_pace_100m_s = None
                 THEN "ThresholdNotFoundError" ELSE "returned"
    ELSE "returned"

validate_threshold_for_tss_calculation(threshold, sport) ==
    IF threshold = None THEN "ThresholdNotFoundError"
    ELSE IF Lower(sport) = "cycling"
        THEN IF InvalidInt(Val(threshold).ftp)
                 THEN "ThresholdNotFoundError" ELSE "returned"
    ELSE IF Lower(sport) = "running"
        THEN IF InvalidFloat(Val(threshold).threshold_pace_min_per_km)
                 THEN "ThresholdNotFoundError" ELSE "returned"
    ELSE IF Lower(sport) = "swimming"
        THEN IF InvalidFloat(Val(threshold).threshold_pace_100m_s)
                 THEN "ThresholdNotFoundError" ELSE "returned"
    ELSE "returned"

\* --------------------------------------------- calculate_normalized_power
\* the 30 of "30 * sample_rate_hz"
RollingSeconds == 30

\* Series.mean()
SeriesMean(x) == Rat(RangeSum(x, 1, Len(x)), Len(x))

\* variant of RollingMean with min_periods = window: the positions whose
\* window is not yet full hold NaN, which the later mean() skips
RollingMeanFullWindows(x, window) ==
    [i \in 1..(Len(x) - window + 1) |->
        Rat(RangeSum(x, i, i + window - 1), window)]

\* Series.rolling(window, min_periods=1).mean(): at each position the mean
\* of the samples of the trailing window that exist
RollingMean(x, window) ==
    [i \in 1..Len(x) |->
        LET first == IF i > window THEN i - window + 1 ELSE 1
        IN  Rat(RangeSum(x, first, i), i - first + 1)]

\* The least common denominator of a series of rationals (denominators are
\* machine integers) is the product of the greatest prime powers dividing a
\* denominator; DenFactors lists them in increasing order.
PrimePowers(n) ==
    {q \in 2..n : \E p \in 2..q :
        /\ \A f \in 2..(p - 1) : p % f # 0
        /\ \A f \in 2..q : q % f = 0 => f % p = 0}

DenFactors(r) ==
    LET dens == {r[i][2] : i \in 1..Len(r)}
        powers == PrimePowers(SetMax(dens))
        maximal == {q \in powers :
                       /\ \E d \in dens : d % q = 0
                       /\ \A q2 \in powers :
                              (q2 > q /\ q2 % q = 0) => \A d \in dens : d % q2 # 0}
    IN  [k \in 1..Cardinality(maximal) |->
            CHOOSE q \in maximal : Cardinality({q2 \in maximal : q2 < q}) = k - 1]

\* (the least common denominator) / d, for a denominator d of the series
Cofactor(factors, d) ==
    LET Gcd(q) == SetMax({f \in 1..q : q % f = 0 /\ d % f = 0})
        cofactors == [k \in 1..Len(factors) |-> BN(factors[k] \div Gcd(factors[k]))]
    IN  BNProduct(cofactors, 1, Len(cofactors))

CommonDen(factors) == Cofactor(factors, 1)

\* variant of MeanOfFourthPowers dividing the sum by one more than the count
MeanOfFourthPowersOffByOne(r) ==
    LET factors == DenFactors(r)
        scaled == [i \in 1..Len(r) |->
                      BNPow4(BNMul(Cofactor(factors, r[i][2]), BN(r[i][1])))]
    IN  <<BNSum(scaled, 1, Len(scaled)),
          BNMul(BNPow4(CommonDen(factors)), BN(Len(scaled) + 1))>>

\* (rolling_avg ** 4).mean(), the terms brought to the common denominator
MeanOfFourthPowers(r) ==
    LET factors == DenFactors(r)
        scaled == [i \in 1..Len(r) |->
                      BNPow4(BNMul(Cofactor(factors, r[i][2]), BN(r[i][1])))]
    IN  <<BNSum(scaled, 1, Len(scaled)),
          BNMul(BNPow4(CommonDen(factors)), BN(Len(scaled)))>>

\* A returned float is kept as its 4th power pow4 (the 4th root of a rational
\* is in general not rational); samples are non-negative, so two results are
\* equal or ordered as their 4th powers are.
NpReturn(pow4) == [kind |-> "float", pow4 |-> pow4]
NpRaise(error) == [kind |-> error, pow4 |-> <<(<<>>), BN(1)>>]

\* variant of calculate_normalized_power whose short-workout test also takes
\* a series of exactly 30 * sample_rate_hz samples
calculate_normalized_power_inclusive(samples, rate) ==
    IF samples = <<>> THEN NpRaise("ValueError")
    ELSE IF rate <= 0 THEN NpRaise("ValueError")
    ELSE IF Len(samples) <= RollingSeconds * rate
        THEN NpReturn(QPow4(SeriesMean(samples)))
    ELSE NpReturn(MeanOfFourthPowers(RollingMean(samples, RollingSeconds * rate)))

calculate_normalized_power(samples, rate) ==
    IF samples = <<>> THEN NpRaise("ValueError")
    ELSE IF rate <= 0 THEN NpRaise("ValueError")
    ELSE IF Len(samples) < RollingSeconds * rate
        THEN NpReturn(QPow4(SeriesMean(samples)))
    ELSE NpReturn(MeanOfFourthPowers(RollingMean(samples, RollingSeconds * rate)))

\* The other power metrics work on normalized power, so their floats are
\* kept the same way: a non-negative value v as the big rational v ** 4.
QZero == <<(<<>>), BN(1)>>
QMul(x, y) == <<BNMul(QNum(x), QNum(y)), BNMul(QDen(x), QDen(y))>>
\* x / y for y > 0
QDiv(x, y) == <<BNMul(QNum(x), QDen(y)), BNMul(QDen(x), QNum(y))>>
\* the machine integer n >= 0
QInt(n) == <<BNPow4(BN(n)), BN(1)>>

calculate_intensity_factor(np, ftp) ==
    IF ftp <= 0 THEN NpRaise("ValueError")
    ELSE NpReturn(QDiv(np, QInt(ftp)))

\* variant of calculate_variability_index guarding like the other functions
calculate_variability_index_strict(np, avg_power) ==
    IF RLe(avg_power, RZero) THEN NpRaise("ValueError")
    ELSE NpReturn(QDiv(np, QPow4(avg_power)))

\* avg_power is a float of either sign, np is not negative
calculate_variability_index(np, avg_power) ==
    IF RLe(avg_power, RZero) THEN NpReturn(QZero)
    ELSE NpReturn(QDiv(np, QPow4(avg_power)))

\* variant of calculate_tss_from_power without the final scaling by 100
calculate_tss_from_power_unscaled(duration_s, np, ftp) ==
    IF ftp <= 0 THEN NpRaise("ValueError")
    ELSE IF duration_s < 0 THEN NpRaise("ValueError")
    ELSE LET intensity_factor == QDiv(np, QInt(ftp))
         IN  NpReturn(QDiv(QMul(QMul(QInt(duration_s), np), intensity_factor),
                           QInt(ftp * 3600)))

calculate_tss_from_power(duration_s, np, ftp) ==
    IF ftp <= 0 THEN NpRaise("ValueError")
    ELSE IF duration_s < 0 THEN NpRaise("ValueError")
    ELSE LET intensity_factor == QDiv(np, QInt(ftp))
             tss == QMul(QDiv(QMul(QMul(QInt(duration_s), np), intensity_factor),
                              QInt(ftp * 3600)),
                         QInt(100))
         IN  NpReturn(tss)

\* ------------------------------------------------- per-workout summary
\* schemas.Sample, the fields the summary reads
Sample(t_s, power_w, hr_bpm) ==
    [workout_id |-> 1, t_s |-> t_s, power_w |-> power_w, hr_bpm |-> hr_bpm]

\* [s.f for s in samples if s.f is not None], f given as a selector
Present(optionals) ==
    LET kept == {i \in 1..Len(optionals) : optionals[i] # None}
    IN  [k \in 1..Cardinality(kept) |->
            Val(optionals[CHOOSE i \in kept : Cardinality({j \in kept : j < i}) = k - 1])]

PowerOf(samples) == Present([i \in 1..Len(samples) |-> samples[i].power_w])
HrOf(samples) == Present([i \in 1..Len(samples) |-> samples[i].hr_bpm])

SeqMax(x) == SetMax({x[i] : i \in 1..Len(x)})

\* a dict key that is absent is None
EmptySummary ==
    [avg_power |-> None, max_power |-> None, np |-> None, vi |-> None,
     if |-> None, tss |-> None, power_calc_error |-> None,
     avg_hr |-> None, max_hr |-> None, distance_m |-> None, elevation_m |-> None]

\* "if ftp and ftp > 0"
FtpTruthyAndPositive(ftp) == ftp # None /\ Val(ftp) # 0 /\ Val(ftp) > 0

\* summary[key] = result, or the except clause when the call raised
Stored(sum0, key, result) ==
    IF result.kind # "float"
        THEN [sum0 EXCEPT !.power_calc_error = Some(result.kind)]
        ELSE [sum0 EXCEPT ![key] = Some(result.pow4)]

\* the try block after intensity_factor was computed: 'if', then tss
AfterIf(sum2, samples, ftp, np, if_value) ==
    IF if_value.kind # "float" THEN Stored(sum2, "if", if_value)
    ELSE Stored(Stored(sum2, "if", if_value), "tss",
                calculate_tss_from_power(samples[Len(samples)].t_s, np, ftp))

\* the try block after vi was computed: vi, then the ftp test
AfterVi(sum1, samples, ftp, np, vi) ==
    IF vi.kind # "float" \/ ~FtpTruthyAndPositive(ftp) THEN Stored(sum1, "vi", vi)
    ELSE AfterIf(Stored(sum1, "vi", vi), samples, Val(ftp), np,
                 calculate_intensity_factor(np, Val(ftp)))

\* the try block after np was computed: np, then vi
AfterNp(sum0, samples, ftp, np) ==
    IF np.kind # "float" THEN Stored(sum0, "np", np)
    ELSE AfterVi(Stored(sum0, "np", np), samples, ftp, np.pow4,
                 calculate_variability_index(np.pow4, Val(sum0.avg_power)))

\* the try block of the power path: what it stored before it finished or
\* an exception left it
PowerPath(sum0, samples, power_list, ftp) ==
    AfterNp(sum0, samples, ftp, calculate_normalized_power(power_list, 1))

\* variant of DeviceFallback in which a device-reported value wins
DeviceOverride(sum0, session_data) ==
    [sum0 EXCEPT
        !.np = IF session_data.normalized_power # None
                   THEN Some(QInt(Val(session_data.normalized_power)))
                   ELSE sum0.np,
        !.tss = IF session_data.tss # None
                    THEN Some(QInt(Val(session_data.tss)))
                    ELSE sum0.tss]

\* the device-reported values fill in only for keys still missing
DeviceFallback(sum0, session_data) ==
    [sum0 EXCEPT
        !.np = IF sum0.np = None /\ session_data.normalized_power # None
                   THEN Some(QInt(Val(session_data.normalized_power)))
                   ELSE sum0.np,
        !.tss = IF sum0.tss = None /\ session_data.tss # None
                    THEN Some(QInt(Val(session_data.tss)))
                    ELSE sum0.tss]

\* the power part of the summary
PowerSummary(samples, power_list, ftp) ==
    IF power_list = <<>> THEN EmptySummary
    ELSE PowerPath([EmptySummary EXCEPT
                       !.avg_power = Some(SeriesMean(power_list)),
                       !.max_power = Some(SeqMax(power_list))],
                   samples, power_list, ftp)

\* the heart-rate part
HrSummary(powered, hr_list) ==
    IF hr_list = <<>> THEN powered
    ELSE [powered EXCEPT
             !.avg_hr = Some(SeriesMean(hr_list)),
             !.max_hr = Some(SeqMax(hr_list))]

\* distance and elevation from the session record
SessionSummary(hearted, session_data) ==
    [hearted EXCEPT
        !.distance_m = session_data.total_distance_m,
        !.elevation_m = session_data.total_ascent_m]

calculate_summary_metrics(samples, session_data, ftp) ==
    DeviceFallback(
        SessionSummary(HrSummary(PowerSummary(samples, PowerOf(samples), ftp),
                                 HrOf(samples)),
                       session_data),
        session_data)

\* ---------------------------------------------------- sample extraction
\* Timestamps are whole seconds (the container's resolution), so
\* int((timestamp - start_time).total_seconds()) is their difference.
SecondsSince(timestamp, start_time) == timestamp - start_time

\* Sample(**sample_data): t_s is validated ge=0
SampleValid(sample) == sample.t_s >= 0

\* variant of ExtractRecord that also emits a record without a timestamp,
\* with the initial t_s = 0
ExtractRecordKeepAll(st, record) ==
    LET start_time == IF record.timestamp # None /\ st.start_time = None
                          THEN record.timestamp ELSE st.start_time
        t_s == IF record.timestamp = None THEN 0
               ELSE SecondsSince(Val(record.timestamp), Val(start_time))
        sample == Sample(t_s, record.power, None)
    IN  IF st.raised # None THEN st
        ELSE IF ~SampleValid(sample)
            THEN [st EXCEPT !.start_time = start_time, !.raised = Some("ValidationError")]
        ELSE [st EXCEPT !.start_time = start_time,
                        !.samples = Append(st.samples, sample)]

\* one iteration of the loop over the records: st holds start_time, the
\* samples so far and the exception that ended the loop, if any
ExtractRecord(st, record) ==
    LET start_time == IF record.timestamp # None /\ st.start_time = None
                          THEN record.timestamp ELSE st.start_time
        t_s == IF record.timestamp = None THEN 0
               ELSE SecondsSince(Val(record.timestamp), Val(start_time))
        sample == Sample(t_s, record.power, None)
    IN  IF st.raised # None THEN st
        ELSE IF record.timestamp = None THEN st
        ELSE IF ~SampleValid(sample)
            THEN [st EXCEPT !.start_time = start_time, !.raised = Some("ValidationError")]
        ELSE [st EXCEPT !.start_time = start_time,
                        !.samples = Append(st.samples, sample)]

RECURSIVE ExtractLoop(_, _)
ExtractLoop(recs, n) ==
    IF n = 0 THEN [start_time |-> None, samples |-> <<>>, raised |-> None]
    ELSE ExtractRecord(ExtractLoop(recs, n - 1), recs[n])

extract_samples(recs) ==
    LET st == ExtractLoop(recs, Len(recs))
    IN  IF st.raised # None THEN [kind |-> Val(st.raised), samples |-> <<>>]
        ELSE [kind |-> "samples", samples |-> st.samples]

\* ----------------------------------------------------- parse_fit_file
\* session_data.get('sport', 'unknown').lower() and the if/elif chain
SportOf(session_sport) ==
    LET sport == Lower(IF session_sport = None THEN "unknown" ELSE Val(session_sport))
    IN  IF sport = "bike" \/ sport = "cycling" THEN "cycling"
        ELSE IF sport = "run" \/ sport = "running" THEN "running"
        ELSE IF sport = "swim" \/ sport = "swimming" THEN "swimming"
        ELSE sport

\* what FitFile(path) does with a container: it reads the file header
FitFile(container) ==
    IF container = "bad_header" THEN "raises" ELSE "opened"

\* what fitfile.get_messages(...) does: the message body is decoded when
\* the messages are iterated
get_messages(container) ==
    IF container = "bad_body" THEN "raises" ELSE "messages"

ParseRaised(kind) ==
    [kind |-> kind, sport |-> None, duration_s |-> None, samples |-> <<>>,
     summary_json |-> None]

\* the session_data dict of a file whose session message carries a sport
SessionData(session_sport) ==
    [sport |-> session_sport, normalized_power |-> None, tss |-> None,
     total_distance_m |-> None, total_ascent_m |-> None]

\* lines after the try statement: extraction, the empty check, the summary,
\* the sport and the WorkoutExecuted
ExtractAndBuild(file, ftp) ==
    IF get_messages(file.container) = "raises" THEN ParseRaised("FitParseError")
    ELSE LET session_data == SessionData(file.sport)
             extracted == extract_samples(file.records)
             samples == extracted.samples
         IN  IF extracted.kind # "samples" THEN ParseRaised(extracted.kind)
             ELSE IF samples = <<>> THEN ParseRaised("FileParseError")
             ELSE [kind |-> "return",
                   sport |-> Some(SportOf(session_data.sport)),
                   duration_s |-> Some(samples[Len(samples)].t_s),
                   samples |-> samples,
                   summary_json |-> Some(calculate_summary_metrics(samples, session_data, ftp))]

\* ------------------------------------------------------------- actions
LoadIdle == activities = <<>> /\ loadPc = "idle" /\ metrics = <<>>

ThrIdle ==
    /\ thresholds = <<>>
    /\ thrQuery = None
    /\ thrPc = "idle"
    /\ thrResult = None

ValIdle == valInput = None /\ valPc = "idle"

NpIdle ==
    /\ power_samples = <<>>
    /\ sample_rate_hz = 0
    /\ npPc = "idle"
    /\ npResult = None

PureIdle == metricCall = None /\ metricPc = "idle" /\ metricResult = None

SumIdle == sumInput = None /\ sumPc = "idle" /\ summary = None

ExtIdle == records = <<>> /\ extPc = "idle" /\ extResult = None

ParseIdle ==
    /\ parseInput = None /\ parsePc = "idle" /\ tempFile = "none"
    /\ pending = None /\ parseOutcome = None

ComposeIdle ==
    /\ composeInput = None /\ composePc = "idle"
    /\ composeThreshold = None /\ composeResult = None

ReqIdle ==
    /\ reqInput = None /\ reqPc = "idle" /\ reqLog = <<>> /\ reqResult = None

ApiIdle ==
    /\ tpEnv = None /\ tp_client = None /\ apiStep = 0 /\ apiResponse = None

UploadIdle ==
    /\ uploadInput = None /\ uploadPc = "idle" /\ uploadFile = "absent"
    /\ uploadRaised = <<>> /\ uploadStatus = None

GarminIdle ==
    /\ garminClient = "None" /\ tokenStore = "absent" /\ lastLogin = "none"
    /\ garminCalls = 0 /\ garminPc = "ready" /\ garminCall = None

LoadInit ==
    /\ unit = "load"
    /\ activities \in ActivityLists
    /\ loadPc = "call"
    /\ metrics = <<>>
    /\ ThrIdle /\ ValIdle /\ NpIdle /\ PureIdle /\ SumIdle /\ ExtIdle /\ ParseIdle
        /\ ComposeIdle
        /\ ReqIdle
        /\ ApiIdle
        /\ UploadIdle
        /\ GarminIdle

ComputeMetricsDaily ==
    /\ unit = "load"
    /\ loadPc = "call"
    /\ LET r == compute_metrics_daily(activities)
       IN  /\ loadPc' = IF r.raised THEN "raised" ELSE "done"
           /\ metrics' = r.results
    /\ UNCHANGED <<unit, activities, thrVars, valVars, npVars, pureVars, sumVars, extVars, parseVars, composeVars, reqVars, apiVars, uploadVars, garminVars>>

LoadNext == ComputeMetricsDaily

SpecLoad == LoadInit /\ [][LoadNext]_vars

\* the same call on lists of activities that differ in date and in having
\* an explicit tss, for comparing the orders of one list
ReorderActivity ==
    [activity_date : 0..MaxDay,
     duration_min : DurationValues,
     tss : {None, Some(RInt(100))},
     intensity_factor : {None}]

ReorderLists == UNION {[1..n -> ReorderActivity] : n \in 0..MaxActs}

ReorderInit ==
    /\ unit = "load"
    /\ activities \in ReorderLists
    /\ loadPc = "call"
    /\ metrics = <<>>
    /\ ThrIdle /\ ValIdle /\ NpIdle /\ PureIdle /\ SumIdle /\ ExtIdle /\ ParseIdle
        /\ ComposeIdle
        /\ ReqIdle
        /\ ApiIdle
        /\ UploadIdle
        /\ GarminIdle

SpecReorder == ReorderInit /\ [][LoadNext]_vars

\* scoring a cycling workout: resolve the threshold of its date, validate
\* it, then compute IF and TSS with its ftp
ComposeRecords ==
    AthleteThreshold({1}, {"cycling", "running"}, 0..MaxDate,
                     {None, Some(0), Some(250)}, {None}, {None})

ComposeHistories ==
    UNION {[1..n -> {r \in ComposeRecords : ~r.is_user_override}] : n \in 0..MaxThr}

ComposeInit ==
    /\ unit = "compose"
    /\ composeInput \in {Some([history |-> h, sport |-> "Cycling", workout_date |-> d]) :
                            h \in ComposeHistories, d \in 0..MaxDate}
    /\ composePc = "resolve"
    /\ composeThreshold = None
    /\ composeResult = None
    /\ LoadIdle /\ ThrIdle /\ ValIdle /\ NpIdle /\ PureIdle /\ SumIdle /\ ExtIdle
        /\ ParseIdle
        /\ ReqIdle
        /\ ApiIdle
        /\ UploadIdle
        /\ GarminIdle

ComposeRest == <<unit, composeInput, loadVars, thrVars, valVars, npVars, pureVars,
                 sumVars, extVars, parseVars, reqVars, apiVars, uploadVars, garminVars>>

ComposeResolve ==
    /\ unit = "compose"
    /\ composePc = "resolve"
    /\ LET c == Val(composeInput)
       IN  composeThreshold' =
               get_threshold_for_date(1, c.sport, c.workout_date, c.history, TRUE)
    /\ composePc' = "validate"
    /\ UNCHANGED <<composeResult, ComposeRest>>

ComposeValidate ==
    /\ unit = "compose"
    /\ composePc = "validate"
    /\ composePc' =
           IF validate_threshold_for_tss_calculation(composeThreshold,
                                                     Val(composeInput).sport) = "returned"
               THEN "calculate" ELSE "rejected"
    /\ UNCHANGED <<composeThreshold, composeResult, ComposeRest>>

\* the calculators take the ftp of the accepted record; an ftp of None
\* is passed as it is
ComposeCalculate ==
    /\ unit = "compose"
    /\ composePc = "calculate"
    /\ \E np \in {QZero, QInt(200)}, duration_s \in {0, 3600} :
           LET ftp == Val(composeThreshold).ftp
           IN  composeResult' =
                   IF ftp = None
                       THEN Some([if |-> NpRaise("TypeError"), tss |-> NpRaise("TypeError")])
                       ELSE Some([if |-> calculate_intensity_factor(np, Val(ftp)),
                                  tss |-> calculate_tss_from_power(duration_s, np, Val(ftp))])
    /\ composePc' = "done"
    /\ UNCHANGED <<composeThreshold, ComposeRest>>

ComposeNext ==
    \/ ComposeResolve
    \/ ComposeValidate
    \/ ComposeCalculate

SpecCompose == ComposeInit /\ [][ComposeNext]_vars

\* ------------------------------------------------- the clients' requests
\* oauth_session.token: None, or a dict, given by the keys it holds
SessionTokens ==
    {None, Some({}), Some({"access_token"}), Some({"access_token", "refresh_token"})}

\* 'not self.oauth_session.token': None and the empty dict are falsy
TokenFalsy(token) == token = None \/ Head(token) = {}

\* the error type each client raises
ApiErrorOf(client) ==
    IF client = "strava" THEN "StravaAPIError" ELSE "TrainingPeaksAPIError"

Clients == {"strava", "trainingpeaks"}

Endpoints(client) ==
    IF client = "strava" THEN {"/athlete", "/athlete/activities"}
    ELSE {"/v1/athlete", "/v1/athlete/workouts"}

ErrorStatuses == {401, 404, 500}

\* what request / raise_for_status / json of one attempt can do: succeed,
\* raise httpx.HTTPStatusError for an error status, or raise anything else
\* (the session's own HTTPError for an error status, a connection error,
\* a body that is not JSON)
AttemptOutcomes ==
    {[exc |-> "none", status |-> 200]}
    \cup {[exc |-> x, status |-> s] : x \in {"HTTPStatusError", "HTTPError"},
                                      s \in ErrorStatuses}
    \cup {[exc |-> "ConnectionError", status |-> 0],
          [exc |-> "JSONDecodeError", status |-> 200]}

ReqInit ==
    /\ unit = "request"
    /\ reqInput \in {Some([client |-> c, token |-> t, endpoint |-> ep]) :
                        c \in Clients, t \in SessionTokens,
                        ep \in Endpoints("strava") \cup Endpoints("trainingpeaks")}
    /\ Val(reqInput).endpoint \in Endpoints(Val(reqInput).client)
    /\ reqPc = "call"
    /\ reqLog = <<>>
    /\ reqResult = None
    /\ LoadIdle /\ ThrIdle /\ ValIdle /\ NpIdle /\ PureIdle /\ SumIdle /\ ExtIdle
        /\ ParseIdle /\ ComposeIdle
        /\ ApiIdle
        /\ UploadIdle
        /\ GarminIdle

ReqRest == <<unit, reqInput, loadVars, thrVars, valVars, npVars, pureVars,
             sumVars, extVars, parseVars, composeVars, apiVars, uploadVars, garminVars>>

ReqRaise(client) == Some([kind |-> "raised", type |-> ApiErrorOf(client)])

ReqReturn == Some([kind |-> "returned", type |-> "json"])

\* the token check at the head of _make_request
MakeRequestNoTokenCheck ==
    /\ unit = "request"
    /\ reqPc = "call"
    /\ reqPc' = "first"
    /\ UNCHANGED <<reqResult, reqLog, ReqRest>>

MakeRequest ==
    /\ unit = "request"
    /\ reqPc = "call"
    /\ IF TokenFalsy(Val(reqInput).token)
           THEN reqResult' = ReqRaise(Val(reqInput).client) /\ reqPc' = "done"
           ELSE reqResult' = reqResult /\ reqPc' = "first"
    /\ UNCHANGED <<reqLog, ReqRest>>

\* the first attempt and the two except clauses around it
FirstAttempt ==
    /\ unit = "request"
    /\ reqPc = "first"
    /\ \E o \in AttemptOutcomes :
        /\ reqLog' = Append(reqLog, [op |-> "request", outcome |-> o])
        /\ IF o.exc = "none"
               THEN reqResult' = ReqReturn /\ reqPc' = "done"
               ELSE IF o.exc = "HTTPStatusError" /\ o.status = 401
                   THEN reqResult' = reqResult /\ reqPc' = "refresh"
                   ELSE reqResult' = ReqRaise(Val(reqInput).client) /\ reqPc' = "done"
    /\ UNCHANGED ReqRest

\* refresh_access_token inside the inner try: without a refresh token it
\* raises before any refresh is sent; every exception becomes the API error
RefreshAccessToken ==
    /\ unit = "request"
    /\ reqPc = "refresh"
    /\ IF "refresh_token" \notin Head(Val(reqInput).token)
           THEN /\ reqResult' = ReqRaise(Val(reqInput).client)
                /\ reqPc' = "done"
                /\ reqLog' = reqLog
           ELSE \E ok \in BOOLEAN :
                /\ reqLog' = Append(reqLog, [op |-> "refresh",
                                             outcome |-> [exc |-> IF ok THEN "none"
                                                                  ELSE "OAuthError",
                                                          status |-> 0]])
                /\ IF ok
                       THEN reqResult' = reqResult /\ reqPc' = "retry"
                       ELSE reqResult' = ReqRaise(Val(reqInput).client) /\ reqPc' = "done"
    /\ UNCHANGED ReqRest

\* the one retry inside the inner try
RetryAttempt ==
    /\ unit = "request"
    /\ reqPc = "retry"
    /\ \E o \in AttemptOutcomes :
        /\ reqLog' = Append(reqLog, [op |-> "request", outcome |-> o])
        /\ reqResult' = IF o.exc = "none" THEN ReqReturn
                        ELSE ReqRaise(Val(reqInput).client)
    /\ reqPc' = "done"
    /\ UNCHANGED ReqRest

ReqNext ==
    \/ MakeRequest
    \/ FirstAttempt
    \/ RefreshAccessToken
    \/ RetryAttempt

SpecRequest == ReqInit /\ [][ReqNext]_vars

\* ------------------------------------------- the TrainingPeaks endpoints
\* the environment from_env reads: are the client credentials, the access
\* token and the refresh token set
TpEnvironments ==
    {Some([credentials |-> c, access_token |-> a, refresh_token |-> r]) :
        c \in BOOLEAN, a \in BOOLEAN, r \in BOOLEAN}

\* TrainingPeaksClient.__init__: the session gets a token only when both
\* tokens are given
NewClient(env) ==
    Some([token |-> IF env.access_token /\ env.refresh_token
                        THEN Some({"access_token", "refresh_token"})
                        ELSE None])

\* the date parameters of a request, as day ordinals: a day, the next day
\* and a day more than a year later
ApiDates == {0, 1, 400}

ApiInit ==
    /\ unit = "api"
    /\ tpEnv \in TpEnvironments
    /\ tp_client = None
    /\ apiStep = 0
    /\ apiResponse = None
    /\ LoadIdle /\ ThrIdle /\ ValIdle /\ NpIdle /\ PureIdle /\ SumIdle /\ ExtIdle
        /\ ParseIdle /\ ComposeIdle /\ ReqIdle
        /\ UploadIdle
        /\ GarminIdle

ApiRest == <<unit, tpEnv, loadVars, thrVars, valVars, npVars, pureVars,
             sumVars, extVars, parseVars, composeVars, reqVars, uploadVars, garminVars>>

Response(endpoint, start_date, end_date, status, api_calls) ==
    Some([endpoint |-> endpoint, start_date |-> start_date, end_date |-> end_date,
          status |-> status, api_calls |-> api_calls])

\* 'if not tp_client or not tp_client.oauth_session.token'
NotAuthenticatedClientOnly(client) == client = None

NotAuthenticated(client) ==
    client = None \/ TokenFalsy(Head(client).token)

\* what a call of the client can do once the session has a token: it sends
\* one request, or two when the first is answered 401 and the token is
\* refreshed, and returns, raises TrainingPeaksAPIError, or (only where
\* the client maps the answer to Activity objects) raises something else
ClientCalls(mapped) ==
    {[outcome |-> o, api_calls |-> n] :
        o \in {"returned", "TrainingPeaksAPIError"}
              \cup (IF mapped THEN {"ValueError"} ELSE {}),
        n \in {1, 2}}

\* the status of a data endpoint after the client call
StatusOf(call) ==
    CASE call.outcome = "returned" -> 200
      [] call.outcome = "TrainingPeaksAPIError" -> 400
      [] OTHER -> 500

\* GET /auth/trainingpeaks
AuthTrainingpeaks ==
    /\ unit = "api"
    /\ apiStep < MaxRequests
    /\ apiStep' = apiStep + 1
    /\ IF ~Val(tpEnv).credentials
           THEN /\ tp_client' = tp_client
                /\ apiResponse' = Response("/auth/trainingpeaks", None, None, 400, 0)
           ELSE /\ tp_client' = NewClient(Val(tpEnv))
                /\ \E url_ok \in BOOLEAN :
                       apiResponse' = Response("/auth/trainingpeaks", None, None,
                                               IF url_ok THEN 200 ELSE 500, 0)
    /\ UNCHANGED ApiRest

\* GET /auth/callback: the exchange stores the token in the session when
\* it succeeds
AuthCallback ==
    /\ unit = "api"
    /\ apiStep < MaxRequests
    /\ apiStep' = apiStep + 1
    /\ IF tp_client = None
           THEN /\ tp_client' = tp_client
                /\ apiResponse' = Response("/auth/callback", None, None, 400, 0)
           ELSE \E exchanged \in BOOLEAN, with_refresh \in BOOLEAN :
                IF exchanged
                    THEN /\ tp_client' =
                               Some([token |-> Some({"access_token"} \cup
                                       (IF with_refresh THEN {"refresh_token"} ELSE {}))])
                         /\ apiResponse' = Response("/auth/callback", None, None, 200, 1)
                    ELSE /\ tp_client' = tp_client
                         /\ apiResponse' = Response("/auth/callback", None, None, 400, 1)
    /\ UNCHANGED ApiRest

\* GET /trainingpeaks/profile
GetTpProfile ==
    /\ unit = "api"
    /\ apiStep < MaxRequests
    /\ apiStep' = apiStep + 1
    /\ IF NotAuthenticated(tp_client)
           THEN apiResponse' = Response("/trainingpeaks/profile", None, None, 401, 0)
           ELSE \E call \in ClientCalls(FALSE) :
                apiResponse' = Response("/trainingpeaks/profile", None, None,
                                        StatusOf(call), call.api_calls)
    /\ UNCHANGED <<tp_client, ApiRest>>

\* GET /trainingpeaks/activities
GetTpActivities ==
    /\ unit = "api"
    /\ apiStep < MaxRequests
    /\ apiStep' = apiStep + 1
    /\ \E start_date \in ApiDates, end_date \in ApiDates :
        IF NotAuthenticated(tp_client)
            THEN apiResponse' = Response("/trainingpeaks/activities",
                                         Some(start_date), Some(end_date), 401, 0)
            ELSE IF end_date < start_date \/ end_date - start_date > 365
                THEN apiResponse' = Response("/trainingpeaks/activities",
                                             Some(start_date), Some(end_date), 400, 0)
                ELSE \E call \in ClientCalls(TRUE) :
                     apiResponse' = Response("/trainingpeaks/activities",
                                             Some(start_date), Some(end_date),
                                             StatusOf(call), call.api_calls)
    /\ UNCHANGED <<tp_client, ApiRest>>

\* POST /trainingpeaks/metrics
ComputeTpMetrics ==
    /\ unit = "api"
    /\ apiStep < MaxRequests
    /\ apiStep' = apiStep + 1
    /\ \E start_date \in ApiDates, end_date \in ApiDates :
        IF NotAuthenticated(tp_client)
            THEN apiResponse' = Response("/trainingpeaks/metrics",
                                         Some(start_date), Some(end_date), 401, 0)
            ELSE \E call \in ClientCalls(TRUE) :
                 apiResponse' = Response("/trainingpeaks/metrics",
                                         Some(start_date), Some(end_date),
                                         StatusOf(call), call.api_calls)
    /\ UNCHANGED <<tp_client, ApiRest>>

ApiNext ==
    \/ AuthTrainingpeaks
    \/ AuthCallback
    \/ GetTpProfile
    \/ GetTpActivities
    \/ ComputeTpMetrics

SpecApi == ApiInit /\ [][ApiNext]_vars

\* ------------------------------------------------------- upload_workout
\* file names, as their parts between the dots
Filenames ==
    {<<"ride", "fit">>, <<"RIDE", "FIT">>, <<"ride", "fit", "gz">>, <<"ride", "tar", "gz">>,
     <<"ride", "tcx">>, <<"ride", "gpx">>, <<"notes", "txt">>, <<"ride">>}

\* Path(name).suffix.lower(), without its dot; "" when there is none
SuffixLower(name) == IF Len(name) < 2 THEN "" ELSE Lower(name[Len(name)])

\* name.lower().endswith("." + tail[1] + "." + tail[2] ...)
EndsWithLower(name, tail) ==
    /\ Len(name) > Len(tail)
    /\ \A i \in 1..Len(tail) : Lower(name[Len(name) - Len(tail) + i]) = tail[i]

allowed_extensions == {"fit", "gz", "tcx", "gpx"}

\* what parse_fit_file does with the saved file
UploadParseOutcomes == {"return", "FileParseError", "FitParseError", "ValidationError"}

UploadInit ==
    /\ unit = "upload"
    /\ uploadInput \in {Some([filename |-> f, save_ok |-> s, parse |-> p]) :
                           f \in Filenames, s \in BOOLEAN, p \in UploadParseOutcomes}
    /\ uploadPc = "validate"
    /\ uploadFile = "absent"
    /\ uploadRaised = <<>>
    /\ uploadStatus = None
    /\ LoadIdle /\ ThrIdle /\ ValIdle /\ NpIdle /\ PureIdle /\ SumIdle /\ ExtIdle
        /\ ParseIdle /\ ComposeIdle /\ ReqIdle /\ ApiIdle
        /\ GarminIdle

UploadRest == <<unit, uploadInput, loadVars, thrVars, valVars, npVars, pureVars,
                sumVars, extVars, parseVars, composeVars, reqVars, apiVars, garminVars>>

HTTPException(status_code) == [type |-> "HTTPException", status_code |-> status_code]

\* the file type check, before the try statement
ValidateFileType ==
    /\ unit = "upload"
    /\ uploadPc = "validate"
    /\ LET filename == Val(uploadInput).filename
       IN  IF /\ SuffixLower(filename) \notin allowed_extensions
              /\ ~EndsWithLower(filename, <<"fit", "gz">>)
               THEN /\ uploadRaised' = Append(uploadRaised, HTTPException(400))
                    /\ uploadStatus' = Some(400)
                    /\ uploadPc' = "done"
               ELSE /\ uploadRaised' = uploadRaised
                    /\ uploadStatus' = uploadStatus
                    /\ uploadPc' = "save"
    /\ UNCHANGED <<uploadFile, UploadRest>>

\* the copy into uploads/, first statement of the try; a failed copy
\* leaves a file behind when it was already opened
SaveUpload ==
    /\ unit = "upload"
    /\ uploadPc = "save"
    /\ IF Val(uploadInput).save_ok
           THEN /\ uploadFile' = "saved"
                /\ uploadRaised' = uploadRaised
                /\ uploadPc' = "parse"
           ELSE /\ uploadFile' \in {"absent", "saved"}
                /\ uploadRaised' = Append(uploadRaised, [type |-> "OSError", status_code |-> 0])
                /\ uploadPc' = "except"
    /\ UNCHANGED <<uploadStatus, UploadRest>>

\* the parse branch and the not-implemented branch, inside the try
ParseUpload ==
    /\ unit = "upload"
    /\ uploadPc = "parse"
    /\ LET filename == Val(uploadInput).filename
           parse == Val(uploadInput).parse
       IN  IF EndsWithLower(filename, <<"fit">>) \/ EndsWithLower(filename, <<"fit", "gz">>)
               THEN IF parse = "return"
                        THEN /\ uploadRaised' = uploadRaised
                             /\ uploadStatus' = Some(200)
                             /\ uploadPc' = "done"
                    ELSE IF parse = "FileParseError"
                        THEN /\ uploadRaised' = Append(uploadRaised, HTTPException(400))
                             /\ uploadStatus' = uploadStatus
                             /\ uploadPc' = "except"
                    ELSE /\ uploadRaised' = Append(uploadRaised,
                                                   [type |-> parse, status_code |-> 0])
                         /\ uploadStatus' = uploadStatus
                         /\ uploadPc' = "except"
               ELSE /\ uploadRaised' = Append(uploadRaised, HTTPException(501))
                    /\ uploadStatus' = uploadStatus
                    /\ uploadPc' = "except"
    /\ UNCHANGED <<uploadFile, UploadRest>>

\* 'except Exception': HTTPException is an Exception, so the handler also
\* catches the two raised inside the try
UploadExcept ==
    /\ unit = "upload"
    /\ uploadPc = "except"
    /\ uploadFile' = IF uploadFile = "saved" THEN "removed" ELSE uploadFile
    /\ uploadRaised' = Append(uploadRaised, HTTPException(500))
    /\ uploadStatus' = Some(500)
    /\ uploadPc' = "done"
    /\ UNCHANGED UploadRest

UploadNext ==
    \/ ValidateFileType
    \/ SaveUpload
    \/ ParseUpload
    \/ UploadExcept

SpecUpload == UploadInit /\ [][UploadNext]_vars

\* ------------------------------------------------------- GarminClient
GarminInit ==
    /\ unit = "garmin"
    /\ garminClient = "None"
    /\ tokenStore \in {"absent", "cached", "unreadable"}
    /\ lastLogin = "none"
    /\ garminCalls = 0
    /\ garminPc = "ready"
    /\ garminCall = None
    /\ LoadIdle /\ ThrIdle /\ ValIdle /\ NpIdle /\ PureIdle /\ SumIdle /\ ExtIdle
        /\ ParseIdle /\ ComposeIdle /\ ReqIdle /\ ApiIdle /\ UploadIdle

GarminRest == <<unit, loadVars, thrVars, valVars, npVars, pureVars,
                sumVars, extVars, parseVars, composeVars, reqVars, apiVars, uploadVars>>

GarminCall(name, ran_login, outcome) ==
    Some([name |-> name, ran_login |-> ran_login, outcome |-> outcome])

\* a call of login()
CallLogin ==
    /\ unit = "garmin"
    /\ garminPc = "ready"
    /\ garminCalls < MaxCalls
    /\ garminCalls' = garminCalls + 1
    /\ garminCall' = GarminCall("login", TRUE, "running")
    /\ garminPc' = "load"
    /\ UNCHANGED <<garminClient, tokenStore, lastLogin, GarminRest>>

\* a call of _ensure_authenticated(): 'if not self.client: self.login()'
EnsureAuthenticated ==
    /\ unit = "garmin"
    /\ garminPc = "ready"
    /\ garminCalls < MaxCalls
    /\ garminCalls' = garminCalls + 1
    /\ IF garminClient = "None"
           THEN /\ garminCall' = GarminCall("_ensure_authenticated", TRUE, "running")
                /\ garminPc' = "load"
           ELSE /\ garminCall' = GarminCall("_ensure_authenticated", FALSE, "returned")
                /\ garminPc' = "ready"
    /\ UNCHANGED <<garminClient, tokenStore, lastLogin, GarminRest>>

\* _load_tokens: None when the file is missing or cannot be read
LoadTokens ==
    /\ unit = "garmin"
    /\ garminPc = "load"
    /\ garminPc' = IF tokenStore = "cached" THEN "token" ELSE "password"
    /\ UNCHANGED <<garminClient, tokenStore, lastLogin, garminCalls, garminCall, GarminRest>>

\* 'self.client = Garmin()' and the token login; login() returns when it
\* succeeds and goes on to the password login when it fails
TokenLogin ==
    /\ unit = "garmin"
    /\ garminPc = "token"
    /\ \E ok \in BOOLEAN :
        IF ok
            THEN /\ garminClient' = "authenticated"
                 /\ lastLogin' = "succeeded"
                 /\ garminCall' = GarminCall(Head(garminCall).name, TRUE, "returned")
                 /\ garminPc' = "ready"
            ELSE /\ garminClient' = "unauthenticated"
                 /\ garminPc' = "password"
                 /\ UNCHANGED <<lastLogin, garminCall>>
    /\ UNCHANGED <<tokenStore, garminCalls, GarminRest>>

\* 'self.client = Garmin(self.email, self.password)' and the password
\* login; a failure is raised as GarminAPIError, self.client stays assigned
PasswordLogin ==
    /\ unit = "garmin"
    /\ garminPc = "password"
    /\ \E ok \in BOOLEAN :
        IF ok
            THEN /\ garminClient' = "authenticated"
                 /\ garminPc' = "cache"
                 /\ UNCHANGED <<lastLogin, garminCall>>
            ELSE /\ garminClient' = "unauthenticated"
                 /\ lastLogin' = "failed"
                 /\ garminCall' = GarminCall(Head(garminCall).name, TRUE, "GarminAPIError")
                 /\ garminPc' = "ready"
    /\ UNCHANGED <<tokenStore, garminCalls, GarminRest>>

\* the new tokens are cached; a failure to save them is only printed
CacheTokens ==
    /\ unit = "garmin"
    /\ garminPc = "cache"
    /\ \E saved \in BOOLEAN :
        tokenStore' \in IF saved THEN {"cached"} ELSE {tokenStore, "unreadable"}
    /\ lastLogin' = "succeeded"
    /\ garminCall' = GarminCall(Head(garminCall).name, TRUE, "returned")
    /\ garminPc' = "ready"
    /\ UNCHANGED <<garminClient, garminCalls, GarminRest>>

GarminNext ==
    \/ CallLogin
    \/ EnsureAuthenticated
    \/ LoadTokens
    \/ TokenLogin
    \/ PasswordLogin
    \/ CacheTokens

SpecGarmin == GarminInit /\ [][GarminNext]_vars

\* the resolver: histories of a cycling/running athlete pair, queried with
\* sport tags in any case
HistoryRecords ==
    AthleteThreshold({1, 2}, {"cycling", "running"}, 0..MaxDate,
                     {Some(250)}, {None}, {None})

Histories == UNION {[1..n -> HistoryRecords] : n \in 0..MaxThr}

Queries ==
    [athlete_id : {1},
     sport : {"Cycling", "running"},
     workout_date : 0..MaxDate,
     prefer_user_override : BOOLEAN]

ThrInit ==
    /\ unit = "thr"
    /\ thresholds \in Histories
    /\ thrQuery \in {Some(q) : q \in Queries}
    /\ thrPc = "call"
    /\ thrResult = None
    /\ LoadIdle /\ ValIdle /\ NpIdle /\ PureIdle /\ SumIdle /\ ExtIdle /\ ParseIdle
        /\ ComposeIdle
        /\ ReqIdle
        /\ ApiIdle
        /\ UploadIdle
        /\ GarminIdle

GetThresholdForDate ==
    /\ unit = "thr"
    /\ thrPc = "call"
    /\ LET q == Val(thrQuery)
       IN  thrResult' = get_threshold_for_date(q.athlete_id, q.sport, q.workout_date,
                                                thresholds, q.prefer_user_override)
    /\ thrPc' = "done"
    /\ UNCHANGED <<unit, thresholds, thrQuery, loadVars, valVars, npVars, pureVars, sumVars, extVars, parseVars, composeVars, reqVars, apiVars, uploadVars, garminVars>>

ThrNext == GetThresholdForDate

SpecThr == ThrInit /\ [][ThrNext]_vars

\* the validator: any threshold record or none, any sport tag
ValidatedRecords ==
    AthleteThreshold({1}, AllowedSports, {0},
                     {None, Some(0), Some(250)},
                     {None, Some(Rat(21, 5))},
                     {None, Some(RInt(90))})

ValidatedSports ==
    {"cycling", "Cycling", "running", "Running", "swimming", "triathlon", "other"}

ValInit ==
    /\ unit = "validate"
    /\ valInput \in {Some([threshold |-> t, sport |-> s]) :
                        t \in {None} \cup {Some(r) : r \in ValidatedRecords},
                        s \in ValidatedSports}
    /\ valPc = "call"
    /\ LoadIdle /\ ThrIdle /\ NpIdle /\ PureIdle /\ SumIdle /\ ExtIdle /\ ParseIdle
        /\ ComposeIdle
        /\ ReqIdle
        /\ ApiIdle
        /\ UploadIdle
        /\ GarminIdle

ValidateThresholdForTss ==
    /\ unit = "validate"
    /\ valPc = "call"
    /\ valPc' = validate_threshold_for_tss_calculation(Val(valInput).threshold,
                                                        Val(valInput).sport)
    /\ UNCHANGED <<unit, valInput, loadVars, thrVars, npVars, pureVars, sumVars, extVars, parseVars, composeVars, reqVars, apiVars, uploadVars, garminVars>>

ValNext == ValidateThresholdForTss

SpecValidate == ValInit /\ [][ValNext]_vars

\* normalized power: series made of at most MaxSegs stretches of constant
\* power, long enough to fill the rolling window, at any sample rate
PowerValues == {0, 100, 300}
StretchLengths == {1, 29, 30}
Stretches == [watts : PowerValues, len : StretchLengths]

RECURSIVE Expand(_, _)
Expand(segs, n) ==
    IF n = 0 THEN <<>>
    ELSE Expand(segs, n - 1) \o [i \in 1..segs[n].len |-> segs[n].watts]

PowerSeries == {Expand(segs, Len(segs)) : segs \in UNION {[1..n -> Stretches] : n \in 0..MaxSegs}}

SampleRates == {-1, 0, 1, 2}

NpInit ==
    /\ unit = "np"
    /\ power_samples \in PowerSeries
    /\ sample_rate_hz \in SampleRates
    /\ npPc = "call"
    /\ npResult = None
    /\ LoadIdle /\ ThrIdle /\ ValIdle /\ PureIdle /\ SumIdle /\ ExtIdle /\ ParseIdle
        /\ ComposeIdle
        /\ ReqIdle
        /\ ApiIdle
        /\ UploadIdle
        /\ GarminIdle

CalculateNormalizedPower ==
    /\ unit = "np"
    /\ npPc = "call"
    /\ npResult' = Some(calculate_normalized_power(power_samples, sample_rate_hz))
    /\ npPc' = "done"
    /\ UNCHANGED <<unit, power_samples, sample_rate_hz, loadVars, thrVars, valVars, pureVars, sumVars, extVars, parseVars, composeVars, reqVars, apiVars, uploadVars, garminVars>>

NpNext == CalculateNormalizedPower

SpecNp == NpInit /\ [][NpNext]_vars

\* the other pure metric functions, on valid and invalid arguments
NpArguments == {QZero, QInt(200), QInt(250), QPow4(Rat(425, 2))}
FtpArguments == {-1, 0, 200, 250}
DurationArguments == {-1, 0, 1800, 3600}
AvgPowerArguments == {Rat(-50, 1), RZero, RInt(200), Rat(425, 2)}

MetricCalls ==
    [fn : {"calculate_intensity_factor"}, np : NpArguments, ftp : FtpArguments,
     duration_s : {0}, avg_power : {RZero}]
    \cup [fn : {"calculate_variability_index"}, np : NpArguments, ftp : {0},
          duration_s : {0}, avg_power : AvgPowerArguments]
    \cup [fn : {"calculate_tss_from_power"}, np : NpArguments, ftp : FtpArguments,
          duration_s : DurationArguments, avg_power : {RZero}]

PureInit ==
    /\ unit = "pure"
    /\ metricCall \in {Some(c) : c \in MetricCalls}
    /\ metricPc = "call"
    /\ metricResult = None
    /\ LoadIdle /\ ThrIdle /\ ValIdle /\ NpIdle /\ SumIdle /\ ExtIdle /\ ParseIdle
        /\ ComposeIdle
        /\ ReqIdle
        /\ ApiIdle
        /\ UploadIdle
        /\ GarminIdle

CalculateIntensityFactor ==
    /\ unit = "pure"
    /\ metricPc = "call"
    /\ Val(metricCall).fn = "calculate_intensity_factor"
    /\ metricResult' = Some(calculate_intensity_factor(Val(metricCall).np,
                                                       Val(metricCall).ftp))
    /\ metricPc' = "done"
    /\ UNCHANGED <<unit, metricCall, loadVars, thrVars, valVars, npVars, sumVars, extVars, parseVars, composeVars, reqVars, apiVars, uploadVars, garminVars>>

CalculateVariabilityIndex ==
    /\ unit = "pure"
    /\ metricPc = "call"
    /\ Val(metricCall).fn = "calculate_variability_index"
    /\ metricResult' = Some(calculate_variability_index(Val(metricCall).np,
                                                        Val(metricCall).avg_power))
    /\ metricPc' = "done"
    /\ UNCHANGED <<unit, metricCall, loadVars, thrVars, valVars, npVars, sumVars, extVars, parseVars, composeVars, reqVars, apiVars, uploadVars, garminVars>>

CalculateTssFromPower ==
    /\ unit = "pure"
    /\ metricPc = "call"
    /\ Val(metricCall).fn = "calculate_tss_from_power"
    /\ metricResult' = Some(calculate_tss_from_power(Val(metricCall).duration_s,
                                                     Val(metricCall).np,
                                                     Val(metricCall).ftp))
    /\ metricPc' = "done"
    /\ UNCHANGED <<unit, metricCall, loadVars, thrVars, valVars, npVars, sumVars, extVars, parseVars, composeVars, reqVars, apiVars, uploadVars, garminVars>>

\* every pure metric function: normalized power and the three above
PureNext ==
    \/ CalculateNormalizedPower
    \/ CalculateIntensityFactor
    \/ CalculateVariabilityIndex
    \/ CalculateTssFromPower

SpecPure == (NpInit \/ PureInit) /\ [][PureNext]_vars

\* the summary assembly: samples half an hour apart, with or without power
\* and heart rate; any FTP; a session record with or without device values
SampleLists ==
    UNION {{[i \in 1..n |-> Sample(1800 * (i - 1), pw[i], hr[i])] :
               pw \in [1..n -> {None, Some(100), Some(300)}],
               hr \in [1..n -> {None, Some(120)}]} : n \in 1..MaxSamples}

FtpValues == {None, Some(-5), Some(0), Some(250)}

SessionSummaries ==
    [normalized_power : {None, Some(999)},
     tss : {None, Some(77)},
     total_distance_m : {None, Some(40000)},
     total_ascent_m : {None, Some(350)}]

SumInit ==
    /\ unit = "summary"
    /\ sumInput \in {Some([samples |-> x, session_data |-> d, ftp |-> f]) :
                        x \in SampleLists, d \in SessionSummaries, f \in FtpValues}
    /\ sumPc = "call"
    /\ summary = None
    /\ LoadIdle /\ ThrIdle /\ ValIdle /\ NpIdle /\ PureIdle /\ ExtIdle /\ ParseIdle
        /\ ComposeIdle
        /\ ReqIdle
        /\ ApiIdle
        /\ UploadIdle
        /\ GarminIdle

CalculateSummaryMetrics ==
    /\ unit = "summary"
    /\ sumPc = "call"
    /\ summary' = Some(calculate_summary_metrics(Val(sumInput).samples,
                                                 Val(sumInput).session_data,
                                                 Val(sumInput).ftp))
    /\ sumPc' = "done"
    /\ UNCHANGED <<unit, sumInput, loadVars, thrVars, valVars, npVars, pureVars, extVars, parseVars, composeVars, reqVars, apiVars, uploadVars, garminVars>>

SumNext == CalculateSummaryMetrics

SpecSummary == SumInit /\ [][SumNext]_vars

\* sample extraction: records with or without a timestamp, 10 s apart and
\* in any order, with or without power
RecordMessages == [timestamp : {None, Some(1000), Some(1010), Some(1020)},
                   power : {None, Some(200)}]

RecordLists == UNION {[1..n -> RecordMessages] : n \in 0..MaxRecords}

ExtInit ==
    /\ unit = "extract"
    /\ records \in RecordLists
    /\ extPc = "call"
    /\ extResult = None
    /\ LoadIdle /\ ThrIdle /\ ValIdle /\ NpIdle /\ PureIdle /\ SumIdle /\ ParseIdle
        /\ ComposeIdle
        /\ ReqIdle
        /\ ApiIdle
        /\ UploadIdle
        /\ GarminIdle

ExtractSamples ==
    /\ unit = "extract"
    /\ extPc = "call"
    /\ extResult' = Some(extract_samples(records))
    /\ extPc' = "done"
    /\ UNCHANGED <<unit, records, loadVars, thrVars, valVars, npVars, pureVars, sumVars, parseVars, composeVars, reqVars, apiVars, uploadVars, garminVars>>

ExtNext == ExtractSamples

SpecExtract == ExtInit /\ [][ExtNext]_vars

\* parse_fit_file: the files it can be pointed at
SportTags == {None, Some("Bike"), Some("cycling"), Some("RUN"),
              Some("swimming"), Some("Hiking")}

\* records of a file, each with power
PoweredRecordLists ==
    {recs \in RecordLists : \A i \in 1..Len(recs) : recs[i].power # None}

NoFile ==
    [exists : {FALSE}, gz : BOOLEAN, gzip_ok : {TRUE}, unlink_ok : {TRUE},
     container : {"ok"}, sport : {None}, records : {<<>>}]
\* a .gz path whose content is not gzip data
BadGzipFiles ==
    [exists : {TRUE}, gz : {TRUE}, gzip_ok : {FALSE}, unlink_ok : BOOLEAN,
     container : {"ok"}, sport : {None}, records : {<<>>}]
\* a container the codec cannot read, in its header or in its body
BadContainers ==
    [exists : {TRUE}, gz : BOOLEAN, gzip_ok : {TRUE}, unlink_ok : BOOLEAN,
     container : {"bad_header", "bad_body"}, sport : {None}, records : {<<>>}]
GoodFiles ==
    [exists : {TRUE}, gz : BOOLEAN, gzip_ok : {TRUE}, unlink_ok : BOOLEAN,
     container : {"ok"}, sport : SportTags, records : PoweredRecordLists]
\* unlink is only ever called on the temp file of a .gz path
Files ==
    {f \in NoFile \cup BadGzipFiles \cup BadContainers \cup GoodFiles :
        ~f.gz => f.unlink_ok}

ParseInit ==
    /\ unit = "parse"
    /\ parseInput \in {Some([file |-> f, ftp |-> ftp]) :
                          f \in Files, ftp \in {None, Some(250)}}
    /\ parsePc = "start"
    /\ tempFile = "none"
    /\ pending = None
    /\ parseOutcome = None
    /\ LoadIdle /\ ThrIdle /\ ValIdle /\ NpIdle /\ PureIdle /\ SumIdle /\ ExtIdle
        /\ ComposeIdle
        /\ ReqIdle
        /\ ApiIdle
        /\ UploadIdle
        /\ GarminIdle

ParseRest == <<unit, parseInput, loadVars, thrVars, valVars, npVars, pureVars,
               sumVars, extVars, composeVars, reqVars, apiVars, uploadVars, garminVars>>

\* if not file_path_obj.exists(): raise FileNotFoundError
CheckExists ==
    /\ unit = "parse"
    /\ parsePc = "start"
    /\ IF ~Val(parseInput).file.exists
           THEN /\ parseOutcome' = Some(ParseRaised("FileNotFoundError"))
                /\ parsePc' = "done"
           ELSE /\ parsePc' = "try"
                /\ UNCHANGED parseOutcome
    /\ UNCHANGED <<tempFile, pending, ParseRest>>

\* the .gz branch of the try block: create the temp file and decompress
\* into it; BadGzipFile is turned into FileParseError by its except clause
Decompress ==
    /\ unit = "parse"
    /\ parsePc = "try"
    /\ LET file == Val(parseInput).file
       IN  IF file.gz
               THEN /\ tempFile' = "exists"
                    /\ IF file.gzip_ok
                           THEN parsePc' = "open" /\ UNCHANGED pending
                           ELSE /\ pending' = Some("FileParseError")
                                /\ parsePc' = "finally"
               ELSE /\ parsePc' = "open"
                    /\ UNCHANGED <<tempFile, pending>>
    /\ UNCHANGED <<parseOutcome, ParseRest>>

\* fitfile = FitFile(fit_file_path); any exception becomes FileParseError
OpenFitFile ==
    /\ unit = "parse"
    /\ parsePc = "open"
    /\ pending' = IF FitFile(Val(parseInput).file.container) = "raises"
                      THEN Some("FileParseError") ELSE None
    /\ parsePc' = "finally"
    /\ UNCHANGED <<tempFile, parseOutcome, ParseRest>>

\* the finally clause: unlink the temp file, ignoring a failure to, then
\* let the pending exception out
Cleanup ==
    /\ unit = "parse"
    /\ parsePc = "finally"
    /\ tempFile' = IF tempFile = "exists" /\ Val(parseInput).file.unlink_ok
                       THEN "removed" ELSE tempFile
    /\ IF pending # None
           THEN /\ parseOutcome' = Some(ParseRaised(Val(pending)))
                /\ parsePc' = "done"
           ELSE /\ parsePc' = "extract"
                /\ UNCHANGED parseOutcome
    /\ pending' = None
    /\ UNCHANGED ParseRest

BuildWorkout ==
    /\ unit = "parse"
    /\ parsePc = "extract"
    /\ parseOutcome' = Some(ExtractAndBuild(Val(parseInput).file, Val(parseInput).ftp))
    /\ parsePc' = "done"
    /\ UNCHANGED <<tempFile, pending, ParseRest>>

ParseNext ==
    \/ CheckExists
    \/ Decompress
    \/ OpenFitFile
    \/ Cleanup
    \/ BuildWorkout

SpecParse == ParseInit /\ [][ParseNext]_vars

\* ====================================================== daily load claims
LoadDone == unit = "load" /\ loadPc = "done"

ActDates == {activities[i].activity_date : i \in 1..Len(activities)}

\* C1: for a non-empty activity list compute_metrics_daily returns exactly
\* (max_date - min_date).days + 1 records, the k-th dated min_date + k, so
\* every calendar day of the range appears once and in increasing order, and
\* a day without an activity carries tss = 0.0.
C1_OneRecordPerCalendarDay ==
    (unit = "load" /\ loadPc # "call" /\ activities # <<>>) =>
        /\ loadPc = "done"
        /\ Len(metrics) = SetMax(ActDates) - SetMin(ActDates) + 1
        /\ \A i \in 1..Len(metrics) :
               /\ metrics[i].metric_date = SetMin(ActDates) + (i - 1)
               /\ metrics[i].metric_date \notin ActDates => metrics[i].tss = RZero

\* three activities on two dates with a rest day between them
C1_Witness ==
    /\ LoadDone
    /\ Len(activities) = 3
    /\ Cardinality(ActDates) = 2
    /\ Len(metrics) = 3
    /\ metrics[2].tss = RZero

\* C2: ATL and CTL are the recursions load[0] = tss[0], load[i] =
\* alpha * tss[i] + (1 - alpha) * load[i-1] over the gap-filled daily series,
\* with alpha = 1/7 for ATL and 1/42 for CTL; a rest day is a data point of
\* the recursion like any other.
C2_LoadRecursions ==
    (LoadDone /\ metrics # <<>>) =>
        /\ metrics[1].atl = metrics[1].tss
        /\ metrics[1].ctl = metrics[1].tss
        /\ \A i \in 2..Len(metrics) :
               /\ metrics[i].atl =
                      RAdd(RMul(Rat(1, 7), metrics[i].tss),
                           RMul(Rat(6, 7), metrics[i - 1].atl))
               /\ metrics[i].ctl =
                      RAdd(RMul(Rat(1, 42), metrics[i].tss),
                           RMul(Rat(41, 42), metrics[i - 1].ctl))

\* a rest day after a loaded day: both loads decay on it
C2_Witness ==
    /\ LoadDone
    /\ \E i \in 2..Len(metrics) :
           /\ metrics[i].tss = RZero
           /\ metrics[i].metric_date \notin ActDates
           /\ RLt(RZero, metrics[i].atl)
           /\ RLt(metrics[i].atl, metrics[i - 1].atl)
           /\ RLt(metrics[i].ctl, metrics[i - 1].ctl)

\* C3: every returned record has tsb = ctl - atl, signed; a negative balance
\* is neither clamped nor a reason to reject the record.
C3_BalanceIsCtlMinusAtl ==
    (unit = "load" /\ loadPc # "call") =>
        /\ loadPc = "done"
        /\ \A i \in 1..Len(metrics) :
               metrics[i].tsb = RSub(metrics[i].ctl, metrics[i].atl)

\* a day whose acute load exceeds the chronic load
C3_Witness ==
    /\ LoadDone
    /\ \E i \in 1..Len(metrics) :
           /\ RLt(metrics[i].ctl, metrics[i].atl)
           /\ RLt(metrics[i].tsb, RZero)

\* the TSS an activity contributes to its day, as C4 states it
C4Contribution(a) ==
    IF a.tss # None THEN Val(a.tss)
    ELSE RDiv(RMul(RMul(RInt(100), a.duration_min),
                   IF a.intensity_factor # None
                       THEN Val(a.intensity_factor) ELSE Rat(7, 10)),
              RInt(60))

RECURSIVE C4Sum(_)
C4Sum(S) ==
    IF S = {} THEN RZero
    ELSE LET k == CHOOSE x \in S : TRUE
         IN  RAdd(C4Contribution(activities[k]), C4Sum(S \ {k}))

\* C4: a day's TSS is the sum, over the activities of that date, of the
\* explicit tss where there is one and of 100 * (duration_min / 60) * f
\* otherwise, f the activity's own intensity_factor or else 0.7; an explicit
\* tss is never replaced by the estimate.
C4_DailyConsolidation ==
    LoadDone =>
        \A i \in 1..Len(metrics) :
            metrics[i].tss =
                C4Sum({k \in 1..Len(activities) :
                           activities[k].activity_date = metrics[i].metric_date})

\* one day with an explicit 0.0 and an estimate from the activity's own
\* factor, another activity estimated with the fallback factor
C4_Witness ==
    /\ LoadDone
    /\ \E k1, k2, k3 \in 1..Len(activities) :
           /\ activities[k1].tss = Some(RZero)
           /\ activities[k2].tss = None
           /\ activities[k2].intensity_factor # None
           /\ activities[k2].activity_date = activities[k1].activity_date
           /\ activities[k3].tss = None
           /\ activities[k3].intensity_factor = None

\* ======================================================= resolver claims
ThrDone == unit = "thr" /\ thrPc = "done"

\* the records of the history that are of the athlete and the sport (in any
\* case) and in effect on the workout date
MatchSet ==
    {t \in {thresholds[i] : i \in 1..Len(thresholds)} :
         /\ t.athlete_id = Val(thrQuery).athlete_id
         /\ Lower(t.sport) = Lower(Val(thrQuery).sport)
         /\ t.effective_date <= Val(thrQuery).workout_date}

OverrideSet == {t \in MatchSet : t.is_user_override}

\* C5: with the override preference off, or with no user override among the
\* matching records, the resolver returns a matching record of the greatest
\* effective_date.
C5_MostRecentMatch ==
    (/\ ThrDone
     /\ MatchSet # {}
     /\ (~Val(thrQuery).prefer_user_override \/ OverrideSet = {})) =>
        /\ thrResult # None
        /\ Val(thrResult) \in MatchSet
        /\ \A t \in MatchSet : t.effective_date <= Val(thrResult).effective_date

\* two matching records of different dates, the older one an override, and
\* the preference off
C5_Witness ==
    /\ ThrDone
    /\ ~Val(thrQuery).prefer_user_override
    /\ \E t1 \in OverrideSet, t2 \in MatchSet :
           /\ ~t2.is_user_override
           /\ t1.effective_date < t2.effective_date

\* C6: with the override preference on and a user override among the
\* matching records, the resolver returns the override of the greatest
\* effective_date, also when a matching non-override is more recent; it is
\* never an override dated after the workout.
C6_OverridePrecedence ==
    (ThrDone /\ Val(thrQuery).prefer_user_override /\ OverrideSet # {}) =>
        /\ thrResult # None
        /\ Val(thrResult) \in OverrideSet
        /\ \A o \in OverrideSet : o.effective_date <= Val(thrResult).effective_date
        /\ Val(thrResult).effective_date <= Val(thrQuery).workout_date

\* an override in effect and a more recent matching non-override
C6_Witness ==
    /\ ThrDone
    /\ Val(thrQuery).prefer_user_override
    /\ \E o \in OverrideSet, t \in MatchSet :
           /\ ~t.is_user_override
           /\ o.effective_date < t.effective_date

\* C7: the resolver returns None exactly when no record of the history is of
\* the athlete and the sport and in effect on the workout date; a record it
\* returns is one of the history with all three properties.
C7_NoneIffNoMatch ==
    ThrDone =>
        /\ thrResult = None <=> MatchSet = {}
        /\ thrResult # None => Val(thrResult) \in MatchSet

\* not found although the history holds a record of the athlete and sport
\* (dated after the workout) and a record of another athlete
C7_Witness ==
    /\ ThrDone
    /\ thrResult = None
    /\ \E i, j \in 1..Len(thresholds) :
           /\ thresholds[i].athlete_id = Val(thrQuery).athlete_id
           /\ Lower(thresholds[i].sport) = Lower(Val(thrQuery).sport)
           /\ thresholds[i].effective_date > Val(thrQuery).workout_date
           /\ thresholds[j].athlete_id # Val(thrQuery).athlete_id

\* ====================================================== validator claims
\* the threshold carries a positive value of the requested sport's field
C8Usable(threshold, sport) ==
    /\ threshold # None
    /\ CASE Lower(sport) = "cycling" ->
                /\ Val(threshold).ftp # None
                /\ Val(Val(threshold).ftp) > 0
         [] Lower(sport) = "running" ->
                /\ Val(threshold).threshold_pace_min_per_km # None
                /\ RLt(RZero, Val(Val(threshold).threshold_pace_min_per_km))
         [] Lower(sport) = "swimming" ->
                /\ Val(threshold).threshold_pace_100m_s # None
                /\ RLt(RZero, Val(Val(threshold).threshold_pace_100m_s))
         [] OTHER -> FALSE

\* C8: validate_threshold_for_tss_calculation returns normally only for a
\* present threshold with a positive value of the requested sport's field,
\* and raises ThresholdNotFoundError on every other input, a sport with no
\* identifiable value included.
C8_ValidationRejectsUnusable ==
    (unit = "validate" /\ valPc # "call") =>
        /\ valPc = "returned" =>
               C8Usable(Val(valInput).threshold, Val(valInput).sport)
        /\ ~C8Usable(Val(valInput).threshold, Val(valInput).sport) =>
               valPc = "ThresholdNotFoundError"

\* ============================================== normalized power claims
NpDone == unit = "np" /\ npPc = "done"
NpFloat == NpDone /\ Val(npResult).kind = "float"
HasVariation(x) == \E i, j \in 1..Len(x) : x[i] # x[j]

\* the 4th power of the arithmetic mean of a series r of rationals
C9MeanPow4(r) ==
    LET factors == DenFactors(r)
        scaled == [i \in 1..Len(r) |-> BNMul(Cofactor(factors, r[i][2]), BN(r[i][1]))]
    IN  <<BNPow4(BNSum(scaled, 1, Len(scaled))),
          BNPow4(BNMul(CommonDen(factors), BN(Len(scaled))))>>

C10Window(x, i, W) ==
    LET lo == IF i - W + 1 > 0 THEN i - W + 1 ELSE 0
    IN  <<RangeSum(x, lo + 1, i + 1), i - lo + 1>>

\* the arithmetic mean over every position of (sum / count) ** 4
C10MeanOfFourthPowers(x, W) ==
    LET windows == [k \in 1..Len(x) |-> C10Window(x, k - 1, W)]
        factors == DenFactors(windows)
        terms == [k \in 1..Len(windows) |->
                     BNPow4(BNMul(Cofactor(factors, windows[k][2]), BN(windows[k][1])))]
    IN  <<BNSum(terms, 1, Len(terms)),
          BNMul(BNPow4(CommonDen(factors)), BN(Len(terms)))>>

\* C10: for a series with len >= 30 * sample_rate_hz,
\* calculate_normalized_power returns the 4th root of the arithmetic mean,
\* over every index i of the series, of the 4th power of the trailing
\* rolling mean of samples max(0, i - W + 1)..i with W = 30 * sample_rate_hz:
\* the first W - 1 positions use a shrinking window and none is dropped.
C10_RollingFourthPowerMean ==
    (/\ NpDone
     /\ power_samples # <<>>
     /\ sample_rate_hz > 0
     /\ Len(power_samples) >= 30 * sample_rate_hz) =>
        /\ Val(npResult).kind = "float"
        /\ QEq(Val(npResult).pow4,
               C10MeanOfFourthPowers(power_samples, 30 * sample_rate_hz))

\* a series longer than its window whose shrinking windows see a change of
\* power
C10_Witness ==
    /\ NpFloat
    /\ sample_rate_hz > 0
    /\ Len(power_samples) > 30 * sample_rate_hz
    /\ \E i \in 1..(30 * sample_rate_hz - 2) : power_samples[i] # power_samples[i + 1]

\* C11: calculate_normalized_power equals the arithmetic mean of the series
\* whenever len(series) < 30 * sample_rate_hz, and whenever the series is
\* constant with length >= 30; a series of exactly 30 * sample_rate_hz
\* samples takes the rolling path.
C11_MeanWhenShortOrConstant ==
    NpFloat =>
        /\ Len(power_samples) < 30 * sample_rate_hz =>
               QEq(Val(npResult).pow4, QPow4(SeriesMean(power_samples)))
        /\ (~HasVariation(power_samples) /\ Len(power_samples) >= 30) =>
               QEq(Val(npResult).pow4, QPow4(SeriesMean(power_samples)))
        /\ Len(power_samples) = 30 * sample_rate_hz =>
               QEq(Val(npResult).pow4,
                   C10MeanOfFourthPowers(power_samples, 30 * sample_rate_hz))

\* a varying series one sample short of its window, and so exempt
C11_Witness ==
    /\ NpFloat
    /\ Len(power_samples) = 30 * sample_rate_hz - 1
    /\ HasVariation(power_samples)
    /\ QEq(Val(npResult).pow4, QPow4(SeriesMean(power_samples)))

\* ================================================== pure metric claims
PureDone(fn) == unit = "pure" /\ metricPc = "done" /\ Val(metricCall).fn = fn

\* (duration_s * np^2 / (ftp^2 * 36)) ** 4
C12Expected(duration_s, np, ftp) ==
    QDiv(QMul(QInt(duration_s), QMul(np, np)),
         QMul(QMul(QInt(ftp), QInt(ftp)), QInt(36)))

\* C12: for ftp > 0 and duration_s >= 0, calculate_tss_from_power returns
\* duration_s * np^2 / (ftp^2 * 36): linear in duration_s for fixed np and
\* ftp (0 for duration 0, doubling with the duration), and 3600 s at
\* np = ftp gives exactly 100 for every positive ftp.
C12_TssFromPower ==
    (/\ PureDone("calculate_tss_from_power")
     /\ Val(metricCall).ftp > 0
     /\ Val(metricCall).duration_s >= 0) =>
        LET c == Val(metricCall)
            tss == Val(metricResult)
            twice == calculate_tss_from_power(2 * c.duration_s, c.np, c.ftp)
        IN  /\ tss.kind = "float"
            /\ QEq(tss.pow4, C12Expected(c.duration_s, c.np, c.ftp))
            /\ c.duration_s = 0 => QEq(tss.pow4, QZero)
            /\ twice.kind = "float"
            /\ QEq(twice.pow4, QMul(QInt(2), tss.pow4))
            /\ (c.duration_s = 3600 /\ QEq(c.np, QInt(c.ftp))) =>
                   QEq(tss.pow4, QInt(100))

\* an hour at threshold scored 100
C12_Witness ==
    /\ PureDone("calculate_tss_from_power")
    /\ Val(metricCall).ftp = 250
    /\ Val(metricCall).duration_s = 3600
    /\ QEq(Val(metricCall).np, QInt(250))
    /\ QEq(Val(metricResult).pow4, QInt(100))

\* C13: each pure metric function rejects exactly its invalid arguments:
\* calculate_normalized_power fails iff the series is empty or
\* sample_rate_hz <= 0; calculate_intensity_factor fails iff ftp <= 0;
\* calculate_tss_from_power fails iff ftp <= 0 or duration_s < 0;
\* calculate_variability_index never fails and returns 0.0 when
\* avg_power <= 0 and np / avg_power otherwise.
C13_GuardsRejectExactlyInvalid ==
    /\ NpDone =>
           /\ Val(npResult).kind \in {"float", "ValueError"}
           /\ Val(npResult).kind = "ValueError" <=>
                  (power_samples = <<>> \/ sample_rate_hz <= 0)
    /\ PureDone("calculate_intensity_factor") =>
           /\ Val(metricResult).kind \in {"float", "ValueError"}
           /\ Val(metricResult).kind = "ValueError" <=> Val(metricCall).ftp <= 0
    /\ PureDone("calculate_tss_from_power") =>
           /\ Val(metricResult).kind \in {"float", "ValueError"}
           /\ Val(metricResult).kind = "ValueError" <=>
                  (Val(metricCall).ftp <= 0 \/ Val(metricCall).duration_s < 0)
    /\ PureDone("calculate_variability_index") =>
           /\ Val(metricResult).kind = "float"
           /\ IF RLe(Val(metricCall).avg_power, RZero)
                  THEN QEq(Val(metricResult).pow4, QZero)
                  ELSE QEq(QMul(Val(metricResult).pow4,
                                QPow4(Val(metricCall).avg_power)),
                           Val(metricCall).np)

\* the variability index of a positive normalized power over a
\* non-positive average: 0.0, not a failure
C13_Witness ==
    /\ PureDone("calculate_variability_index")
    /\ RLe(Val(metricCall).avg_power, RZero)
    /\ ~QEq(Val(metricCall).np, QZero)
    /\ Val(metricResult).kind = "float"
    /\ QEq(Val(metricResult).pow4, QZero)

\* ===================================================== summary claims
SumDone == unit = "summary" /\ sumPc = "done"
SumPower == PowerOf(Val(sumInput).samples)
SumHr == HrOf(Val(sumInput).samples)
SumFtp == Val(sumInput).ftp
SumDuration == Val(sumInput).samples[Len(Val(sumInput).samples)].t_s

\* the guard of a derivation rejects the arguments the assembly holds for it
C14IfFails ==
    /\ SumFtp # None
    /\ calculate_intensity_factor(QInt(1), Val(SumFtp)).kind # "float"
C14TssFails ==
    /\ SumFtp # None
    /\ calculate_tss_from_power(SumDuration, QInt(1), Val(SumFtp)).kind # "float"

\* C14: in the summary assembly NP, IF, VI and TSS are each guarded
\* independently: a failure while deriving one of them is recorded rather
\* than raised and does not prevent the other derived fields from being
\* computed and stored, and the heart-rate averages are computed whatever
\* the outcome of the power path.
C14_IndependentGuards ==
    SumDone =>
        /\ SumPower # <<>> =>
               /\ (C14IfFails \/ C14TssFails) =>
                      Val(summary).power_calc_error # None
               /\ Val(summary).np # None
               /\ Val(summary).vi # None
               /\ (SumFtp # None /\ ~C14IfFails) => Val(summary).if # None
               /\ (SumFtp # None /\ ~C14TssFails) => Val(summary).tss # None
        /\ SumHr # <<>> =>
               /\ Val(summary).avg_hr = Some(SeriesMean(SumHr))
               /\ Val(summary).max_hr # None

\* C15: a bad FTP is never silently absorbed: a non-positive FTP supplied
\* for a workout with power data yields an explicit failure (raised, or
\* recorded in the summary), not a summary that silently omits IF and TSS
\* or silently takes the device-reported TSS.
C15_BadFtpIsExplicit ==
    (/\ SumDone
     /\ SumPower # <<>>
     /\ SumFtp # None
     /\ Val(SumFtp) <= 0) =>
        Val(summary).power_calc_error # None

\* what the engine itself derives: NP of a series shorter than 30 samples
\* is its mean, and TSS needs a usable FTP
C16EngineNp == IF SumPower = <<>> THEN None ELSE Some(QPow4(SeriesMean(SumPower)))
C16EngineTss ==
    IF SumPower # <<>> /\ SumFtp # None /\ Val(SumFtp) > 0
        THEN LET np == Head(C16EngineNp)
             IN  Some(C12Expected(SumDuration, np, Head(SumFtp)))
        ELSE None

\* the summary value v is the engine's when it has one, else the device's
\* when the session record carries one, else absent
C16Precedence(v, engine, device) ==
    IF engine # None THEN v # None /\ QEq(Head(v), Head(engine))
    ELSE IF device # None THEN v # None /\ QEq(Head(v), QInt(Head(device)))
    ELSE v = None

\* C16: device-reported normalized power and TSS are fallbacks only:
\* summary 'np' (resp. 'tss') is the engine's own value whenever the engine
\* produced one, whatever the device reported, and is the device-reported
\* value exactly when the engine produced none and the session record
\* carries one.
C16_DeviceValuesAreFallbacks ==
    SumDone =>
        /\ C16Precedence(Val(summary).np, C16EngineNp,
                         Val(sumInput).session_data.normalized_power)
        /\ C16Precedence(Val(summary).tss, C16EngineTss,
                         Val(sumInput).session_data.tss)

\* a power workout with a usable FTP whose device reported both values:
\* neither device value is in the summary
C16_Witness ==
    /\ SumDone
    /\ SumPower # <<>>
    /\ SumFtp = Some(250)
    /\ SumDuration > 0
    /\ Val(sumInput).session_data.normalized_power = Some(999)
    /\ Val(sumInput).session_data.tss = Some(77)
    /\ ~QEq(Val(Val(summary).np), QInt(999))
    /\ ~QEq(Val(Val(summary).tss), QInt(77))

\* ------------------------------------------- daily load claims, continued
\* C21: compute_metrics_daily on an empty activity list returns an empty
\* list and raises no error.
C21_EmptyGivesEmpty ==
    (unit = "load" /\ loadPc # "call" /\ activities = <<>>) =>
        /\ loadPc = "done"
        /\ metrics = <<>>

C21_Witness == LoadDone /\ activities = <<>> /\ metrics = <<>>

\* the returned daily TSS rises strictly from each day to the next
C22StrictlyIncreasing ==
    \A i \in 2..Len(metrics) : RLt(metrics[i - 1].tss, metrics[i].tss)

\* C22: when the daily TSS is strictly increasing over consecutive days,
\* the chronic load does not decrease: ctl[i] >= ctl[i-1] for every day
\* i >= 1 of the series, the final day included.
C22_CtlFollowsRisingTss ==
    (LoadDone /\ C22StrictlyIncreasing) =>
        \A i \in 2..Len(metrics) : RLe(metrics[i - 1].ctl, metrics[i].ctl)

\* three consecutive days, each with more TSS than the day before
C22_Witness ==
    /\ LoadDone
    /\ Len(metrics) = 3
    /\ C22StrictlyIncreasing
    /\ RLt(metrics[2].ctl, metrics[3].ctl)

\* v lies between the least and the greatest daily TSS of days 1..i
C23Enclosed(v, i) ==
    /\ \E j \in 1..i : RLe(metrics[j].tss, v)
    /\ \E j \in 1..i : RLe(v, metrics[j].tss)

\* C23: every MetricsDaily record produced has tss >= 0, atl >= 0 and
\* ctl >= 0, and on every day atl and ctl lie between the minimum and the
\* maximum daily TSS of the days so far; so building the records never
\* fails schema validation for a valid activity list.
C23_LoadsWithinTssRange ==
    (unit = "load" /\ loadPc # "call") =>
        /\ loadPc = "done"
        /\ \A i \in 1..Len(metrics) :
               /\ RLe(RZero, metrics[i].tss)
               /\ RLe(RZero, metrics[i].atl)
               /\ RLe(RZero, metrics[i].ctl)
               /\ C23Enclosed(metrics[i].atl, i)
               /\ C23Enclosed(metrics[i].ctl, i)

\* a loaded day, a rest day and a loaded day: the loads of the last day
\* are strictly inside the range, and a day with zero TSS was accepted
C23_Witness ==
    /\ LoadDone
    /\ Len(metrics) = 3
    /\ metrics[2].tss = RZero
    /\ RLt(RZero, metrics[3].atl)
    /\ RLt(metrics[3].atl, metrics[3].tss)
    /\ RLt(metrics[3].ctl, metrics[1].tss)

\* the permutations of 1..n
C29Permutations(n) ==
    {p \in [1..n -> 1..n] : \A i, j \in 1..n : p[i] = p[j] => i = j}

ExtDone == unit = "extract" /\ extPc = "done"

\* the positions of the records that carry a timestamp
C17Stamped == {i \in 1..Len(records) : records[i].timestamp # None}
\* the k-th of them in encounter order
C17Nth(k) == CHOOSE i \in C17Stamped : Cardinality({j \in C17Stamped : j < i}) = k - 1
\* t_0: the first timestamp observed
C17T0 == Val(records[C17Nth(1)].timestamp)

\* C17: the first timestamp observed defines t_0 and every emitted sample
\* has t_s = round(timestamp - t_0) seconds (timestamps 10 s apart give 0,
\* 10, 20, ...); a record with no timestamp is dropped, is never emitted
\* with t_s = 0 and does not influence t_0; emitted samples keep the
\* encounter order of the records and are never re-sorted.
C17_SampleExtraction ==
    (ExtDone /\ Val(extResult).kind = "samples") =>
        LET samples == Val(extResult).samples
        IN  /\ Len(samples) = Cardinality(C17Stamped)
            /\ \A k \in 1..Len(samples) :
                   /\ samples[k].t_s = Val(records[C17Nth(k)].timestamp) - C17T0
                   /\ samples[k].power_w = records[C17Nth(k)].power

\* a record without a timestamp ahead of two stamped ones 10 s apart:
\* the first is dropped and t_0 comes from the second record
C17_Witness ==
    /\ ExtDone
    /\ Len(records) = 3
    /\ records[1].timestamp = None
    /\ records[2].timestamp = Some(1000)
    /\ records[3].timestamp = Some(1010)
    /\ Val(extResult).kind = "samples"
    /\ Len(Val(extResult).samples) = 2
    /\ Val(extResult).samples[1].t_s = 0
    /\ Val(extResult).samples[2].t_s = 10

\* ================================================= parse_fit_file claims
ParseDone == unit = "parse" /\ parsePc = "done"
ParseFile == Val(parseInput).file
ParseKind == Val(parseOutcome).kind

\* no record of the file carries a timestamp: zero samples are extracted
C18ZeroSamples == \A i \in 1..Len(ParseFile.records) : ParseFile.records[i].timestamp = None

\* C18: parse_fit_file fails with a not-found condition when the path does
\* not exist, and that check happens before any decompression or temp-file
\* creation; for an existing path it fails with FileParseError when the
\* gzip data is invalid, when the container cannot be opened or parsed, or
\* when zero samples are extracted, and the two kinds are never confused.
C18_FailureKinds ==
    /\ (unit = "parse" /\ ~ParseFile.exists) =>
           /\ tempFile = "none"
           /\ parsePc \in {"start", "done"}
           /\ ParseDone => ParseKind = "FileNotFoundError"
    /\ (ParseDone /\ ParseFile.exists) =>
           /\ ParseKind # "FileNotFoundError"
           /\ (\/ (ParseFile.gz /\ ~ParseFile.gzip_ok)
               \/ ParseFile.container # "ok"
               \/ C18ZeroSamples) => ParseKind = "FileParseError"

\* C19: whenever parse_fit_file creates a temporary decompression file for
\* a .gz input, that file no longer exists when the call returns or
\* raises, on every exit path.
C19_TempFileReleased == ParseDone => tempFile # "exists"

\* C20: every raw sport tag of a session (any case, recognized or not, or
\* absent) maps to one of cycling, running, swimming or the unknown
\* bucket, so WorkoutExecuted.sport never carries an unrecognized raw tag.
C20_SportNormalizationTotal ==
    (ParseDone /\ ParseKind = "return") =>
        Val(Val(parseOutcome).sport) \in {"cycling", "running", "swimming", "unknown"}

\* ==================================================== composition claim
\* C30: for every threshold history, if get_threshold_for_date returns a
\* record for sport cycling and validate_threshold_for_tss_calculation
\* accepts it, then that record's ftp is a positive value, so
\* calculate_intensity_factor and calculate_tss_from_power called with it
\* and any duration_s >= 0 never raise.
C30_AcceptedFtpIsUsable ==
    (unit = "compose" /\ composePc \in {"calculate", "done"}) =>
        /\ composeThreshold # None
        /\ Val(composeThreshold).ftp # None
        /\ Val(Val(composeThreshold).ftp) > 0
        /\ composePc = "done" =>
               /\ Val(composeResult).if.kind = "float"
               /\ Val(composeResult).tss.kind = "float"

\* a history holding a cycling record without ftp (or with ftp 0) and a
\* usable one: the resolved record was accepted and both values computed
C30_Witness ==
    /\ unit = "compose"
    /\ composePc = "done"
    /\ \E i \in 1..Len(Val(composeInput).history) :
           /\ Val(composeInput).history[i].sport = "cycling"
           /\ Val(composeInput).history[i].ftp \in {None, Some(0)}
    /\ Val(composeThreshold).ftp = Some(250)
    /\ Val(composeResult).tss.kind = "float"

\* ------------------------------------------------- endpoint claims
DataEndpoints ==
    {"/trainingpeaks/profile", "/trainingpeaks/activities", "/trainingpeaks/metrics"}

C25_DateOrderValidated ==
    [][(/\ unit = "api"
        /\ apiStep' = apiStep + 1
        /\ Head(apiResponse').endpoint = "/trainingpeaks/activities")
       => LET r == Head(apiResponse')
          IN  IF Head(r.end_date) < Head(r.start_date)
                  THEN r.status = 422
                  ELSE NotAuthenticated(tp_client) => r.status = 401]_vars

\* ------------------------------------------------- upload claims
\* the first HTTPException the handler raised: the status it chose
C27Chosen ==
    LET firsts == {i \in 1..Len(uploadRaised) :
                      /\ uploadRaised[i].type = "HTTPException"
                      /\ \A j \in 1..(i - 1) : uploadRaised[j].type # "HTTPException"}
    IN  uploadRaised[CHOOSE i \in firsts : TRUE].status_code

\* C27: the status upload_workout chooses for a failure is the status the
\* caller receives: a FileParseError of parse_fit_file is delivered as 400,
\* a .tcx or .gpx upload as 501, and 500 is delivered only when an
\* exception other than HTTPException was raised
C27_ChosenStatusDelivered ==
    (unit = "upload" /\ uploadPc = "done" /\ uploadRaised # <<>>) =>
        /\ uploadStatus = Some(C27Chosen)
        /\ uploadStatus = Some(500) =>
               \E i \in 1..Len(uploadRaised) : uploadRaised[i].type # "HTTPException"

\* ------------------------------------------------- GarminClient claims
\* C26: after any sequence of login() and _ensure_authenticated() calls,
\* self.client is non-None only if the most recent login attempt
\* succeeded, and an _ensure_authenticated() call made after a failed
\* login runs login again
C26_ClientOnlyAfterSuccess ==
    /\ [](unit = "garmin" /\ garminPc = "ready" /\ garminClient # "None"
              => lastLogin = "succeeded")
    /\ [][(/\ unit = "garmin"
           /\ garminPc = "ready"
           /\ lastLogin = "failed"
           /\ garminCalls' = garminCalls + 1
           /\ Head(garminCall').name = "_ensure_authenticated")
          => Head(garminCall').ran_login]_vars

\* ------------------------------------------------- client request claims
C28Ops(op) == Cardinality({i \in 1..Len(reqLog) : reqLog[i].op = op})

\* C28: a _make_request call of either client issues no HTTP request when
\* the session has no token, at most two HTTP requests and at most one
\* token refresh, a refresh or a second request only after
\* httpx.HTTPStatusError with status 401 on the first attempt, and a call
\* that ends without returning raises the client's own API error
C28_RequestBudget ==
    /\ unit = "request" /\ TokenFalsy(Val(reqInput).token) =>
        /\ reqLog = <<>>
        /\ reqPc = "done" => reqResult = ReqRaise(Val(reqInput).client)
    /\ unit = "request" =>
        /\ C28Ops("request") <= 2
        /\ C28Ops("refresh") <= 1
        /\ Len(reqLog) >= 2 =>
               /\ reqLog[1].op = "request"
               /\ reqLog[1].outcome.status = 401
               /\ reqLog[1].outcome.exc = "HTTPStatusError"
               /\ reqLog[2].op = "refresh"
        /\ reqPc = "done" =>
               \/ reqResult = ReqReturn
               \/ reqResult = ReqRaise(Val(reqInput).client)
        /\ reqPc = "done" /\ reqLog # <<>>
                /\ reqLog[Len(reqLog)].outcome.exc # "none" =>
               reqResult = ReqRaise(Val(reqInput).client)

\* a call that was answered 401, refreshed its token and failed on the retry
C28_Witness ==
    /\ unit = "request" /\ reqPc = "done"
    /\ Len(reqLog) = 3
    /\ reqLog[3].outcome.exc # "none"
    /\ reqResult = ReqRaise(Val(reqInput).client)

====
